---- MODULE Spec2Model ----
(***************************************************************************)
(* Verification model of chiamp/gemini_flight_optimizer.                   *)
(*                                                                         *)
(* The module holds one state machine per component of the pipeline:       *)
(*   SpecGen     generate_flight_itineraries  (src/flight_itinerary.py)    *)
(*   SpecCity    CityRange.get_city_itineraries (src/city.py)              *)
(*   SpecQueries get_queries / extract_queries (src/flight_itinerary.py)   *)
(*   SpecSearch  search_flights_parallel      (src/flight_info.py)         *)
(*   SpecExpand  CityRange.get_all_possible_city_configurations            *)
(*   SpecHours   TimeRange.convert_time_range_to_hour_range                *)
(*   SpecHash    the canonical hashes         (src/flight_hash.py, city.py)*)
(*   SpecMerge   merge_flight_queries         (src/flight_info.py)         *)
(*   SpecItineraries search_flight_itineraries (src/flight_itinerary.py)   *)
(*   SpecRank    the ranking of the itineraries (src/flight_itinerary.py)  *)
(*   SpecRange   the construction of a Range  (src/datetime_range.py)      *)
(*                                                                         *)
(* Python lists are sequences; a Python index i is the index i+1 here.     *)
(* Python None is the value None (NoId for ids).  Date-times are whole     *)
(* hours.                                                                  *)
(***************************************************************************)
EXTENDS Integers, Sequences, FiniteSets, TLC

VARIABLES
  comp,               \* which component this behaviour exercises
  list_flight_infos,  \* generate_flight_itineraries: per-leg candidate lists
  min_stay_hours,     \* generate_flight_itineraries: per-index minimum stay
  max_stay_hours,     \* generate_flight_itineraries: per-index maximum stay
  gen_status,         \* "idle" before the call, then "ok" or the exception raised
  gen_itineraries,    \* the returned list[FlightItinerary] (flight_infos of each)
  gen_visits,         \* the candidates _recurse considered, with the open sets
  city_ranges,        \* get_city_itineraries: the template, a list[CityRange]
  city_status,        \* "idle" before the generator is consumed, then "done"
  city_itineraries,   \* the tuples of City the generator yielded, in order
  city_ranges_list,   \* get_queries: the templates, each a list[CityRange]
  q_status,           \* "idle" before get_queries, then "ok" or the exception raised
  q_city_itineraries, \* get_queries: the concrete city itineraries returned
  q_stay_hours_list,  \* get_queries: per itinerary the min and max stay hours lists
  query_hash_to_query,           \* get_queries: the query registry
  query_hash_to_set_city_hashes, \* get_queries: per query hash its correlation set
  flight_queries,     \* search_flights_parallel: the hashes of the dispatched queries
  provider,           \* per query hash, what the provider call does
  futs,               \* per query hash, the state of its future
  disp_pc,            \* position of the body of search_flights_parallel
  disp_error,         \* the exception search_flights_parallel raised, if any
  query_hash_to_flight_infos,    \* search_flights_parallel: the collected results
  call_args,          \* a call of a pure function: its arguments
  call_status,        \* "idle" before the call, then "ok" or the exception raised
  call_result,        \* the value the call returned
  sfi_status,         \* search_flight_itineraries: "idle", "running", "ok" or the exception
  city_hashes_to_flight_infos,   \* search_flight_itineraries: candidates per city pair
  flight_itinerary_list          \* the ranked itineraries search_flight_itineraries returns

genVars == <<list_flight_infos, min_stay_hours, max_stay_hours,
             gen_status, gen_itineraries, gen_visits>>
cityVars == <<city_ranges, city_status, city_itineraries>>
queryVars == <<city_ranges_list, q_status, q_city_itineraries, q_stay_hours_list,
               query_hash_to_query, query_hash_to_set_city_hashes>>
searchVars == <<flight_queries, provider, futs, disp_pc, disp_error,
                query_hash_to_flight_infos>>
callVars == <<call_args, call_status, call_result>>
sfiVars == <<sfi_status, city_hashes_to_flight_infos, flight_itinerary_list>>
vars == <<comp, genVars, cityVars, queryVars, searchVars, callVars, sfiVars>>

\* The components a behaviour does not exercise stay as constructed.
GenIdle ==
  /\ list_flight_infos = <<>>
  /\ min_stay_hours = <<>>
  /\ max_stay_hours = <<>>
  /\ gen_status = "idle"
  /\ gen_itineraries = <<>>
  /\ gen_visits = {}

CityIdle ==
  /\ city_ranges = <<>>
  /\ city_status = "idle"
  /\ city_itineraries = <<>>

QueryIdle ==
  /\ city_ranges_list = <<>>
  /\ q_status = "idle"
  /\ q_city_itineraries = <<>>
  /\ q_stay_hours_list = <<>>
  /\ query_hash_to_query = <<>>
  /\ query_hash_to_set_city_hashes = {}

CallIdle ==
  /\ call_args = <<>>
  /\ call_status = "idle"
  /\ call_result = <<>>

SfiIdle ==
  /\ sfi_status = "idle"
  /\ city_hashes_to_flight_infos = {}
  /\ flight_itinerary_list = <<>>

SearchIdle ==
  /\ flight_queries = <<>>
  /\ provider = <<>>
  /\ futs = <<>>
  /\ disp_pc = "idle"
  /\ disp_error = "none"
  /\ query_hash_to_flight_infos = <<>>

\* Python None, for optional numbers (hours, dates); absent ids are NoId.
None == 0 - 1
NoId == <<>>

\* ------------------------------------------------------------------------
\* Bounds of the model
\* ------------------------------------------------------------------------
MaxLegs == 3        \* legs of one itinerary
MaxFlights == 3     \* candidate flights offered over all legs of one input
MaxCities == 3      \* cities of one template
MaxConstraints == 4 \* date ranges and time windows stated over one template
MaxQueries == 3     \* queries of one dispatch
MaxDay == 2         \* days a date range of one CityRange spans
MaxListLen == 2     \* members of one list of airports or airlines
MaxRanked == 3      \* itineraries of one ranking
MaxInstant == 2     \* the instants 0..MaxInstant a bound of a range may name
MaxRanges == 2      \* range objects constructed in one behaviour

\* ------------------------------------------------------------------------
\* FlightInfo (src/flight_info.py)
\* ------------------------------------------------------------------------
ONE_WAY == "ONE_WAY"
ROUND_TRIP_DEPARTING == "ROUND_TRIP_DEPARTING"
ROUND_TRIP_RETURNING == "ROUND_TRIP_RETURNING"

\* A flight: its type, its price, the departure of its first leg, the arrival
\* of its last leg, and its parent ids.  The flight built here is non-stop:
\* one leg, whose minutes are the flight's duration, no stop and no layover.
FlightInfo(type, price, dep, arr, parents) ==
  [flight_type |-> type, price |-> price, dep |-> dep, arr |-> arr,
   parent_ids |-> parents,
   duration |-> (arr - dep) * 60, stops |-> 0, layover_minutes_duration |-> <<>>]

\* FlightInfo.id is str(self): it renders the price, the duration, the stops,
\* the type and the legs' date-times, and never the parent ids.
FlightId(f) == <<f.price, f.duration, f.stops, f.flight_type, f.dep, f.arr>>

\* ------------------------------------------------------------------------
\* Inputs of generate_flight_itineraries
\* ------------------------------------------------------------------------
\* Leg k is flown on day k: its flights depart at hour 2(k-1) or one hour later
\* and take one hour, so consecutive legs are 0, 1 or 2 hours apart.  One-way
\* and returning flights cost 100; a departing flight of a round trip costs 0
\* (src/flight_info.py:240).
LegDeparture(k, off) == 2 * (k - 1) + off

DepartingOf(k) ==
  FlightInfo(ROUND_TRIP_DEPARTING, 0, LegDeparture(k, 0), LegDeparture(k, 0) + 1, <<>>)

\* A returning flight lists the departing flights of its round-trip offers:
\* those of the first leg, of the second leg, or of both in either order.
ParentIdPool == {FlightId(DepartingOf(1)), FlightId(DepartingOf(2))}

ParentLists ==
  {<<p>> : p \in ParentIdPool}
  \cup {pq \in ParentIdPool \X ParentIdPool : pq[1] # pq[2]}

\* The flights a provider may offer for leg k, in a fixed order.
RECURSIVE SetToSeq(_)
SetToSeq(S) ==
  IF S = {} THEN <<>>
  ELSE LET x == CHOOSE y \in S : TRUE IN <<x>> \o SetToSeq(S \ {x})

LegFlights(k) ==
  <<FlightInfo(ONE_WAY, 100, LegDeparture(k, 0), LegDeparture(k, 0) + 1, <<>>),
    FlightInfo(ONE_WAY, 100, LegDeparture(k, 1), LegDeparture(k, 1) + 1, <<>>),
    DepartingOf(k)>>
  \o SetToSeq({FlightInfo(ROUND_TRIP_RETURNING, 100, LegDeparture(k, 0),
                          LegDeparture(k, 0) + 1, p) : p \in ParentLists})

Offers(n) == {<<k, i>> : k \in 1..n, i \in 1..Len(LegFlights(1))}

RECURSIVE SubsetsUpTo(_, _)
SubsetsUpTo(S, m) ==
  IF m = 0 \/ S = {} THEN {{}}
  ELSE LET x == CHOOSE y \in S : TRUE
           rest == S \ {x}
       IN SubsetsUpTo(rest, m) \cup {T \cup {x} : T \in SubsetsUpTo(rest, m - 1)}

RECURSIVE PickFlights(_, _, _)
PickFlights(k, i, chosen) ==
  IF i > Len(LegFlights(k)) THEN <<>>
  ELSE (IF <<k, i>> \in chosen THEN <<LegFlights(k)[i]>> ELSE <<>>)
       \o PickFlights(k, i + 1, chosen)

MinStayChoices == {2}
MaxStayChoices == {1}

\* ------------------------------------------------------------------------
\* FlightItinerary.__post_init__ (src/flight_itinerary.py)
\* ------------------------------------------------------------------------
\* flight_group_ids walks the flights in order; a returning flight must have
\* exactly one parent id, which must be the id of an earlier departing flight.
\* Mutant: the parent id is not looked up among the earlier departing flights.
RECURSIVE GroupIdsStatus_NoLookup(_, _, _)
GroupIdsStatus_NoLookup(flight_infos, i, mapped) ==
  IF i > Len(flight_infos) THEN "ok"
  ELSE IF flight_infos[i].flight_type = ROUND_TRIP_RETURNING
          /\ Len(flight_infos[i].parent_ids) # 1
       THEN "AssertionError"
       ELSE GroupIdsStatus_NoLookup(flight_infos, i + 1, mapped)

RECURSIVE GroupIdsStatus(_, _, _)
GroupIdsStatus(flight_infos, i, mapped) ==
  IF i > Len(flight_infos) THEN "ok"
  ELSE LET f == flight_infos[i] IN
    IF f.flight_type = ROUND_TRIP_RETURNING
    THEN IF Len(f.parent_ids) # 1 THEN "AssertionError"
         ELSE IF f.parent_ids[1] \notin mapped THEN "KeyError"
         ELSE GroupIdsStatus(flight_infos, i + 1, mapped)
    ELSE GroupIdsStatus(flight_infos, i + 1,
           IF f.flight_type = ROUND_TRIP_DEPARTING
           THEN mapped \cup {FlightId(f)} ELSE mapped)

PostInit(flight_infos) ==
  IF Len(flight_infos) = 0 THEN "AssertionError"
  ELSE GroupIdsStatus(flight_infos, 1, {})

\* ------------------------------------------------------------------------
\* generate_flight_itineraries._recurse (src/flight_itinerary.py)
\* ------------------------------------------------------------------------
\* The loop over next_flight_info.parent_ids: the first parent id that is open
\* is selected and removed from the child's copy of the open set.
\* Mutant: only the first listed parent id is tried.
ResolveParent_FirstOnly(parent_ids, i, open) ==
  IF parent_ids[1] \in open
  THEN [found |-> TRUE, parent_id |-> parent_ids[1],
        child |-> open \ {parent_ids[1]}]
  ELSE [found |-> FALSE, parent_id |-> NoId, child |-> open]

RECURSIVE ResolveParent(_, _, _)
ResolveParent(parent_ids, i, open) ==
  IF i > Len(parent_ids)
  THEN [found |-> FALSE, parent_id |-> NoId, child |-> open]
  ELSE IF parent_ids[i] \in open
       THEN [found |-> TRUE, parent_id |-> parent_ids[i],
             child |-> open \ {parent_ids[i]}]
       ELSE ResolveParent(parent_ids, i + 1, open)

\* Mutant: a stay of zero hours is accepted.
StayOk_ZeroAccepted(stay_hours, min_stay, max_stay) ==
  /\ (min_stay = None \/ stay_hours >= min_stay)
  /\ (max_stay = None \/ stay_hours <= max_stay)
  /\ stay_hours >= 0

\* The city stay hours constraint of lines 415-422.
StayOk(stay_hours, min_stay, max_stay) ==
  /\ (min_stay = None \/ stay_hours >= min_stay)
  /\ (max_stay = None \/ stay_hours <= max_stay)
  /\ stay_hours > 0

StayHours(prev, next) == next.dep - prev.arr

\* The open set _recurse works with, after line 386-387.
OpenAfter(prev, open) ==
  IF prev.flight_type = ROUND_TRIP_DEPARTING
  THEN open \cup {FlightId(prev)} ELSE open

Prefix(prev, children) == [c \in 1..Len(children) |-> <<prev>> \o children[c]]

\* Recurse(lfi, mins, maxs, prev, open, idx) is _recurse(prev, open, idx-1):
\* the itineraries found, and the candidates it considered on the way.
RECURSIVE Recurse(_, _, _, _, _, _), RecurseFrom(_, _, _, _, _, _, _)
RECURSIVE RecurseFrom_SharedOpen(_, _, _, _, _, _, _)
\* Mutant: the candidates of a leg work on one set, without the copy of
\* line 392.
RecurseFrom_SharedOpen(lfi, mins, maxs, prev, open, idx, j) ==
  IF j > Len(lfi[idx]) THEN [its |-> <<>>, visits |-> {}]
  ELSE
    LET cand == lfi[idx][j]
        r == IF cand.parent_ids # <<>>
             THEN ResolveParent(cand.parent_ids, 1, open)
             ELSE [found |-> FALSE, parent_id |-> NoId, child |-> open]
        skipped == cand.parent_ids # <<>> /\ ~r.found
        next == IF r.found THEN [cand EXCEPT !.parent_ids = <<r.parent_id>>]
                ELSE cand
        visit == [prev |-> prev, cand |-> cand, idx |-> idx, open |-> open,
                  eligible |-> ~skipped, next |-> next,
                  parent_id |-> r.parent_id, child |-> r.child]
        sub == IF skipped \/ ~StayOk(StayHours(prev, next), mins[idx], maxs[idx])
               THEN [its |-> <<>>, visits |-> {}]
               ELSE IF idx = Len(lfi)
                    THEN [its |-> IF r.child # {} THEN <<>> ELSE <<<<prev, next>>>>,
                          visits |-> {}]
                    ELSE LET rec == Recurse(lfi, mins, maxs, next, r.child, idx + 1)
                         IN [its |-> Prefix(prev, rec.its), visits |-> rec.visits]
        rest == RecurseFrom_SharedOpen(lfi, mins, maxs, prev, r.child, idx, j + 1)
    IN [its |-> sub.its \o rest.its,
        visits |-> {visit} \cup sub.visits \cup rest.visits]

\* The candidates from position j on.  Every candidate gets the open set of
\* the call (the copy of line 392); what one candidate removes from its copy
\* is not seen by the next.
RecurseFrom(lfi, mins, maxs, prev, open, idx, j) ==
  IF j > Len(lfi[idx]) THEN [its |-> <<>>, visits |-> {}]
  ELSE
    LET cand == lfi[idx][j]
        r == IF cand.parent_ids # <<>>
             THEN ResolveParent(cand.parent_ids, 1, open)
             ELSE [found |-> FALSE, parent_id |-> NoId, child |-> open]
        skipped == cand.parent_ids # <<>> /\ ~r.found
        next == IF r.found THEN [cand EXCEPT !.parent_ids = <<r.parent_id>>]
                ELSE cand
        visit == [prev |-> prev, cand |-> cand, idx |-> idx, open |-> open,
                  eligible |-> ~skipped, next |-> next,
                  parent_id |-> r.parent_id, child |-> r.child]
        sub == IF skipped \/ ~StayOk(StayHours(prev, next), mins[idx], maxs[idx])
               THEN [its |-> <<>>, visits |-> {}]
               ELSE IF idx = Len(lfi)
                    THEN [its |-> IF r.child # {} THEN <<>> ELSE <<<<prev, next>>>>,
                          visits |-> {}]
                    ELSE LET rec == Recurse(lfi, mins, maxs, next, r.child, idx + 1)
                         IN [its |-> Prefix(prev, rec.its), visits |-> rec.visits]
        rest == RecurseFrom(lfi, mins, maxs, prev, open, idx, j + 1)
    IN [its |-> sub.its \o rest.its,
        visits |-> {visit} \cup sub.visits \cup rest.visits]

Recurse(lfi, mins, maxs, prev, open, idx) ==
  RecurseFrom(lfi, mins, maxs, prev, OpenAfter(prev, open), idx, 1)

\* ------------------------------------------------------------------------
\* generate_flight_itineraries (src/flight_itinerary.py)
\* ------------------------------------------------------------------------
\* Constructs the FlightItinerary objects one after the other; the first
\* failing __post_init__ raises out of the whole call.
RECURSIVE ConstructAll(_, _)
ConstructAll(lists, i) ==
  IF i > Len(lists) THEN "ok"
  ELSE IF PostInit(lists[i]) # "ok" THEN PostInit(lists[i])
  ELSE ConstructAll(lists, i + 1)

\* Mutant: the search starts from one candidate of the first leg only.
StartAll_OneStart(lfi, mins, maxs, s) ==
  IF s > Len(lfi[1]) THEN [its |-> <<>>, visits |-> {}]
  ELSE Recurse(lfi, mins, maxs, lfi[1][s], {}, 2)

RECURSIVE StartAll(_, _, _, _)
StartAll(lfi, mins, maxs, s) ==
  IF s > Len(lfi[1]) THEN [its |-> <<>>, visits |-> {}]
  ELSE LET rec == Recurse(lfi, mins, maxs, lfi[1][s], {}, 2)
           rest == StartAll(lfi, mins, maxs, s + 1)
       IN [its |-> rec.its \o rest.its, visits |-> rec.visits \cup rest.visits]

GenerateFlightItineraries(lfi, mins, maxs) ==
  IF Len(lfi) = 1
  THEN [status |-> ConstructAll(lfi, 1), its |-> lfi, visits |-> {}]
  ELSE LET all == StartAll(lfi, mins, maxs, 1)
       IN [status |-> ConstructAll(all.its, 1), its |-> all.its,
           visits |-> all.visits]

\* ------------------------------------------------------------------------
\* State machine of generate_flight_itineraries
\* ------------------------------------------------------------------------
\* One stopover of the itinerary may carry a minimum or a maximum stay.
StayBounds(n) ==
  {[min |-> [k \in 1..n |-> None], max |-> [k \in 1..n |-> None]]}
  \cup {[min |-> [k \in 1..n |-> IF k = b THEN v ELSE None],
         max |-> [k \in 1..n |-> None]] : b \in 2..n, v \in MinStayChoices}
  \cup {[min |-> [k \in 1..n |-> None],
         max |-> [k \in 1..n |-> IF k = b THEN v ELSE None]] : b \in 2..n, v \in MaxStayChoices}

InitGen ==
  /\ comp = "generate"
  /\ CityIdle /\ QueryIdle /\ SearchIdle /\ CallIdle /\ SfiIdle
  /\ \E n \in 1..MaxLegs :
       /\ \E chosen \in SubsetsUpTo(Offers(n), MaxFlights) :
            list_flight_infos = [k \in 1..n |-> PickFlights(k, 1, chosen)]
       /\ \E stay \in StayBounds(n) :
            /\ min_stay_hours = stay.min
            /\ max_stay_hours = stay.max
  /\ gen_status = "idle"
  /\ gen_itineraries = <<>>
  /\ gen_visits = {}

Generate ==
  /\ comp = "generate"
  /\ gen_status = "idle"
  /\ LET res == GenerateFlightItineraries(list_flight_infos, min_stay_hours,
                                          max_stay_hours)
     IN /\ gen_status' = res.status
        /\ gen_itineraries' = IF res.status = "ok" THEN res.its ELSE <<>>
        /\ gen_visits' = res.visits
  /\ UNCHANGED <<comp, sfiVars, callVars, list_flight_infos, min_stay_hours, max_stay_hours,
               cityVars, queryVars, searchVars>>

NextGen == Generate

SpecGen == InitGen /\ [][NextGen]_vars

\* ------------------------------------------------------------------------
\* Properties of generate_flight_itineraries
\* ------------------------------------------------------------------------
Returned == gen_status = "ok"
Called == gen_status # "idle"
Positions(s) == 1..Len(s)

\* C1: in every returned itinerary of an input with two or more legs, the gap
\* between the arrival of the flight of leg k-1 and the departure of the
\* flight of leg k is strictly positive, at least min_stay_hours[k] when that
\* is set and at most max_stay_hours[k] when that is set.
C1_StayWithinBounds ==
  (Returned /\ Len(list_flight_infos) >= 2) =>
    \A n \in Positions(gen_itineraries) :
      \A p \in 2..Len(gen_itineraries[n]) :
        LET gap == gen_itineraries[n][p].dep - gen_itineraries[n][p - 1].arr
        IN /\ gap > 0
           /\ (min_stay_hours[p] # None => gap >= min_stay_hours[p])
           /\ (max_stay_hours[p] # None => gap <= max_stay_hours[p])

\* A three-leg itinerary is returned whose second stopover has a minimum stay.
C1_Witness ==
  /\ Returned
  /\ Len(list_flight_infos) = 3
  /\ min_stay_hours[3] # None
  /\ gen_itineraries # <<>>

\* C2: in every returned itinerary, every ROUND_TRIP_RETURNING flight carries
\* exactly one parent id, the id of a ROUND_TRIP_DEPARTING flight at an earlier
\* position of the same itinerary.
C2_ReturningHasOneEarlierParent ==
  Returned =>
    \A n \in Positions(gen_itineraries) :
      \A p \in Positions(gen_itineraries[n]) :
        gen_itineraries[n][p].flight_type = ROUND_TRIP_RETURNING =>
          /\ Len(gen_itineraries[n][p].parent_ids) = 1
          /\ \E q \in 1..(p - 1) :
               /\ gen_itineraries[n][q].flight_type = ROUND_TRIP_DEPARTING
               /\ FlightId(gen_itineraries[n][q]) = gen_itineraries[n][p].parent_ids[1]

\* A returned itinerary holds a returning flight whose candidate listed two
\* parent ids.
C2_Witness ==
  /\ Returned
  /\ Len(list_flight_infos) >= 2
  /\ \E n \in Positions(gen_itineraries) :
       \E p \in Positions(gen_itineraries[n]) :
         /\ gen_itineraries[n][p].flight_type = ROUND_TRIP_RETURNING
         /\ \E j \in Positions(list_flight_infos[p]) :
              /\ Len(list_flight_infos[p][j].parent_ids) = 2
              /\ FlightId(list_flight_infos[p][j]) = FlightId(gen_itineraries[n][p])

\* C3: in every returned itinerary, each ROUND_TRIP_DEPARTING flight is the
\* resolved parent of a ROUND_TRIP_RETURNING flight at a later position
\* (stated for the inputs of two or more legs, on which the search runs).
C3_EveryRoundTripClosed ==
  (Returned /\ Len(list_flight_infos) >= 2) =>
    \A n \in Positions(gen_itineraries) :
      \A p \in Positions(gen_itineraries[n]) :
        gen_itineraries[n][p].flight_type = ROUND_TRIP_DEPARTING =>
          \E q \in (p + 1)..Len(gen_itineraries[n]) :
            /\ gen_itineraries[n][q].flight_type = ROUND_TRIP_RETURNING
            /\ gen_itineraries[n][q].parent_ids = <<FlightId(gen_itineraries[n][p])>>

\* C4: for a single-leg input holding m candidates, the call returns exactly m
\* itineraries, the i-th consisting of the i-th candidate alone.
C4_SingleLegOnePerCandidate ==
  (Called /\ Len(list_flight_infos) = 1) =>
    /\ Returned
    /\ Len(gen_itineraries) = Len(list_flight_infos[1])
    /\ \A n \in Positions(gen_itineraries) :
         gen_itineraries[n] = <<list_flight_infos[1][n]>>

\* C5: if any leg has no candidate, the call returns an empty list and raises
\* no error, for any number of legs.
C5_EmptyLegYieldsNothing ==
  (Called /\ \E k \in Positions(list_flight_infos) : list_flight_infos[k] = <<>>) =>
    (Returned /\ gen_itineraries = <<>>)

\* C6: a returning candidate is eligible iff one of its parent ids is in the
\* branch's open set; its resolved parent is then the first listed parent id
\* that is open, and exactly that id is removed from the child's open set.
FirstOpen(parent_ids, open) ==
  parent_ids[CHOOSE i \in Positions(parent_ids) :
               /\ parent_ids[i] \in open
               /\ \A j \in 1..(i - 1) : parent_ids[j] \notin open]

C6_FirstOpenParentWins ==
  \A v \in gen_visits :
    v.cand.parent_ids # <<>> =>
      /\ v.eligible <=> (\E i \in Positions(v.cand.parent_ids) :
                           v.cand.parent_ids[i] \in v.open)
      /\ v.eligible =>
           /\ v.parent_id = FirstOpen(v.cand.parent_ids, v.open)
           /\ v.next.parent_ids = <<v.parent_id>>
           /\ v.child = v.open \ {v.parent_id}
      /\ ~v.eligible => v.child = v.open

\* A returning candidate lists a parent id that is not open before the one
\* that is, and is resolved to the open one.
C6_Witness ==
  \E v \in gen_visits :
    /\ Len(v.cand.parent_ids) = 2
    /\ v.cand.parent_ids[1] \notin v.open
    /\ v.cand.parent_ids[2] \in v.open
    /\ v.eligible
    /\ v.parent_id = v.cand.parent_ids[2]

\* ------------------------------------------------------------------------
\* Ranges (src/datetime_range.py) and cities (src/city.py)
\* ------------------------------------------------------------------------
\* A date is a day number, a time the minute of the day, and
\* datetime.combine(date, time) the minute since day 0.  An absent range is
\* NoRange; a bound of a range may itself be None.
NoRange == [absent |-> TRUE]
Range(earliest, latest) == [earliest |-> earliest, latest |-> latest]
Combine(date, time) == date * 1440 + time

\* An optional number of minutes: <<>> is None.
Some(v) == <<v>>
Truthy(opt) == opt # <<>> /\ opt[1] # 0

\* DepartureFlightFilter: stops is the value of the MaxStops member, price_limit
\* and max_duration are numbers or None, airlines and layover_restrictions are
\* optional values (<<>> is None).
ECONOMY == "ECONOMY"
BUSINESS == "BUSINESS"
\* The values of fli.models.MaxStops, which merge_flight_queries compares.
ANY == 0
NON_STOP == 1
ONE_STOP_OR_FEWER == 2

FlightFilter(stops, seat_type, price_limit, airlines, max_duration, layover) ==
  [stops |-> stops, seat_type |-> seat_type, price_limit |-> price_limit,
   airlines |-> airlines, max_duration |-> max_duration,
   layover_restrictions |-> layover]

\* The defaults of the dataclass, with the given seat type.
DepartureFlightFilter(seat_type) == FlightFilter(ANY, seat_type, None, <<>>, None, <<>>)

City(airports, arr_date, arr_time_range, dep_date, dep_time_range, filter) ==
  [airports |-> airports,
   arrival_date |-> arr_date,
   arrival_time_range |-> arr_time_range,
   departure_date |-> dep_date,
   departure_time_range |-> dep_time_range,
   departure_flight_filter |-> filter]

CityRange(airports, min_stay, max_stay, arr_dates, arr_times, dep_dates, dep_times, filter) ==
  [airports |-> airports,
   min_stay_hours |-> min_stay,
   max_stay_hours |-> max_stay,
   arrival_date_range |-> arr_dates,
   arrival_time_range |-> arr_times,
   departure_date_range |-> dep_dates,
   departure_time_range |-> dep_times,
   departure_flight_filter |-> filter]

\* City.arrival_datetime_range / City.departure_datetime_range: None unless the
\* date and both bounds of the time window are set.
DatetimeRange(date, time_range) ==
  IF date = None \/ time_range = NoRange THEN NoRange
  ELSE IF time_range.earliest = None \/ time_range.latest = None THEN NoRange
  ELSE Range(Combine(date, time_range.earliest), Combine(date, time_range.latest))

ArrivalDatetimeRange(city) == DatetimeRange(city.arrival_date, city.arrival_time_range)
DepartureDatetimeRange(city) == DatetimeRange(city.departure_date, city.departure_time_range)

\* ------------------------------------------------------------------------
\* CityRange.get_all_possible_city_configurations (src/city.py)
\* ------------------------------------------------------------------------
\* The dates a DateRange iterates over; [None] when the range or a bound of
\* it is missing.
DatesOf(date_range) ==
  IF date_range = NoRange THEN <<None>>
  ELSE IF date_range.earliest = None \/ date_range.latest = None THEN <<None>>
  ELSE [i \in 1..(date_range.latest - date_range.earliest + 1) |->
          date_range.earliest + i - 1]

\* The longest and the shortest stay of lines 258-273, in minutes.
LongestStay(cr, arrival_date, departure_date) ==
  IF cr.arrival_time_range # NoRange /\ cr.departure_time_range # NoRange
  THEN IF cr.arrival_time_range.earliest # None /\ cr.departure_time_range.latest # None
       THEN Some(Combine(departure_date, cr.departure_time_range.latest)
                 - Combine(arrival_date, cr.arrival_time_range.earliest))
       ELSE <<>>
  ELSE Some((departure_date - arrival_date) * 1440)

ShortestStay(cr, arrival_date, departure_date) ==
  IF cr.arrival_time_range # NoRange /\ cr.departure_time_range # NoRange
  THEN IF cr.arrival_time_range.latest # None /\ cr.departure_time_range.earliest # None
       THEN Some(Combine(departure_date, cr.departure_time_range.earliest)
                 - Combine(arrival_date, cr.arrival_time_range.latest))
       ELSE <<>>
  ELSE Some((departure_date - arrival_date) * 1440)

\* Lines 257-278: the pair of dates breaks the stay constraints.
BreaksStay(cr, arrival_date, departure_date) ==
  /\ arrival_date # None
  /\ departure_date # None
  /\ LET longest == LongestStay(cr, arrival_date, departure_date)
         shortest == ShortestStay(cr, arrival_date, departure_date)
     IN \/ /\ cr.min_stay_hours # None /\ cr.min_stay_hours # 0
           /\ Truthy(longest)
           /\ longest[1] < cr.min_stay_hours * 60
        \/ /\ cr.max_stay_hours # None /\ cr.max_stay_hours # 0
           /\ Truthy(shortest)
           /\ shortest[1] > cr.max_stay_hours * 60

\* Mutant: a pair whose arrival date is after its departure date is kept.
KeepsDates_NoOrderCheck(cr, arrival_date, departure_date) ==
  ~BreaksStay(cr, arrival_date, departure_date)

\* Lines 254-290: the pair of dates yields a City.
KeepsDates(cr, arrival_date, departure_date) ==
  /\ ~BreaksStay(cr, arrival_date, departure_date)
  /\ (arrival_date = None \/ departure_date = None \/ arrival_date <= departure_date)

GetAllPossibleCityConfigurations(cr) ==
  LET arrivals == DatesOf(cr.arrival_date_range)
      departures == DatesOf(cr.departure_date_range)
      nd == Len(departures)
      pairs == [p \in 1..(Len(arrivals) * nd) |->
                  <<arrivals[((p - 1) \div nd) + 1], departures[((p - 1) % nd) + 1]>>]
      kept == SelectSeq(pairs, LAMBDA pr : KeepsDates(cr, pr[1], pr[2]))
  IN [i \in 1..Len(kept) |->
        City(cr.airports, kept[i][1], cr.arrival_time_range, kept[i][2],
             cr.departure_time_range, cr.departure_flight_filter)]

\* ------------------------------------------------------------------------
\* CityRange.get_city_itineraries (src/city.py)
\* ------------------------------------------------------------------------
\* itertools.product: the tuples in lexicographic order of the positions.
RECURSIVE Product(_)
Product(lists) ==
  IF Len(lists) = 0 THEN <<<<>>>>
  ELSE LET tails == Product(Tail(lists))
           head == Head(lists)
           nt == Len(tails)
       IN [p \in 1..(Len(head) * nt) |->
             <<head[((p - 1) \div nt) + 1]>> \o tails[((p - 1) % nt) + 1]]

\* Lines 306-310: the departure date of city i is after the arrival date of
\* the next city.
DateOrderBroken(departure_city, arrival_city) ==
  /\ departure_city.departure_date # None
  /\ arrival_city.arrival_date # None
  /\ departure_city.departure_date > arrival_city.arrival_date

\* Lines 312-316: both date-time ranges are read from city_itinerary[i].
WindowOrderBroken(city_itinerary, i) ==
  LET departure_datetime_range == DepartureDatetimeRange(city_itinerary[i])
      arrival_datetime_range == ArrivalDatetimeRange(city_itinerary[i])
  IN /\ departure_datetime_range # NoRange
     /\ arrival_datetime_range # NoRange
     /\ departure_datetime_range.earliest > arrival_datetime_range.latest

\* Mutant: the dates of adjacent cities are not compared.
ValidItinerary_NoDateCheck(city_itinerary) ==
  \A i \in 1..(Len(city_itinerary) - 1) : ~WindowOrderBroken(city_itinerary, i)

ValidItinerary(city_itinerary) ==
  \A i \in 1..(Len(city_itinerary) - 1) :
    /\ ~DateOrderBroken(city_itinerary[i], city_itinerary[i + 1])
    /\ ~WindowOrderBroken(city_itinerary, i)

AllConfigurations(ranges) ==
  [i \in 1..Len(ranges) |-> GetAllPossibleCityConfigurations(ranges[i])]

GetCityItineraries(ranges) ==
  SelectSeq(Product(AllConfigurations(ranges)), ValidItinerary)

\* ------------------------------------------------------------------------
\* State machine of get_city_itineraries
\* ------------------------------------------------------------------------
\* A template flies there and back between two cities.  Over the whole
\* template at most MaxConstraints date ranges and time windows are stated.
\* An airport is denoted by the alphabetical rank of its code: LHR 1, YYZ 2.
LHR == <<1>>
YYZ == <<2>>
TemplateAirports(i) == IF i % 2 = 1 THEN LHR ELSE YYZ

DateRangeChoices == <<Range(1, 1), Range(1, 2)>>
TimeRangeChoices == <<Range(360, 480), Range(600, 720)>>

RangeFields ==
  {"arrival_date_range", "arrival_time_range",
   "departure_date_range", "departure_time_range"}

ChoicesOf(field) ==
  IF field \in {"arrival_date_range", "departure_date_range"}
  THEN DateRangeChoices ELSE TimeRangeChoices

StatedRange(stated, pick, i, field) ==
  IF <<i, field>> \in stated THEN ChoicesOf(field)[pick[<<i, field>>]] ELSE NoRange

Template(n, stated, pick) ==
  [i \in 1..n |->
     CityRange(TemplateAirports(i), None, None,
               StatedRange(stated, pick, i, "arrival_date_range"),
               StatedRange(stated, pick, i, "arrival_time_range"),
               StatedRange(stated, pick, i, "departure_date_range"),
               StatedRange(stated, pick, i, "departure_time_range"),
               DepartureFlightFilter(ECONOMY))]

InitCity ==
  /\ comp = "city"
  /\ GenIdle /\ QueryIdle /\ SearchIdle /\ CallIdle /\ SfiIdle
  /\ \E n \in 2..MaxCities :
       \E stated \in SubsetsUpTo((1..n) \X RangeFields, MaxConstraints) :
         \E pick \in [stated -> {1, 2}] :
           city_ranges = Template(n, stated, pick)
  /\ city_status = "idle"
  /\ city_itineraries = <<>>

\* get_queries consumes the whole generator (src/flight_itinerary.py:324).
ConsumeCityItineraries ==
  /\ comp = "city"
  /\ city_status = "idle"
  /\ city_itineraries' = GetCityItineraries(city_ranges)
  /\ city_status' = "done"
  /\ UNCHANGED <<comp, sfiVars, callVars, genVars, city_ranges, queryVars, searchVars>>

NextCity == ConsumeCityItineraries

SpecCity == InitCity /\ [][NextCity]_vars

\* ------------------------------------------------------------------------
\* Properties of get_city_itineraries
\* ------------------------------------------------------------------------
Yielded == city_status = "done"

\* C9: in every yielded tuple, for every adjacent pair where the predecessor
\* has a fully bounded departure window and the successor a fully bounded
\* arrival window, the predecessor's earliest departure instant is not after
\* the successor's latest arrival instant.
C9_DepartureNotAfterNextArrival ==
  Yielded =>
    \A n \in Positions(city_itineraries) :
      \A i \in 1..(Len(city_itineraries[n]) - 1) :
        LET departure == DepartureDatetimeRange(city_itineraries[n][i])
            arrival == ArrivalDatetimeRange(city_itineraries[n][i + 1])
        IN (departure # NoRange /\ arrival # NoRange) =>
             departure.earliest <= arrival.latest

DatesInOrder(city_itinerary) ==
  \A i \in 1..(Len(city_itinerary) - 1) :
    (city_itinerary[i].departure_date # None
     /\ city_itinerary[i + 1].arrival_date # None)
      => city_itinerary[i].departure_date <= city_itinerary[i + 1].arrival_date

ExpansionProduct == Product(AllConfigurations(city_ranges))

NoWindow(city_itinerary) ==
  \A i \in Positions(city_itinerary) :
    /\ DepartureDatetimeRange(city_itinerary[i]) = NoRange
    /\ ArrivalDatetimeRange(city_itinerary[i]) = NoRange

\* The assertion of City.create_flight_search_query on the arrival date
\* (src/city.py:135), reached once departure_date is set (line 134).
ArrivalDateAssertion(departure_city, arrival_city) ==
  departure_city.departure_date # None =>
    (arrival_city.arrival_date = None
     \/ arrival_city.arrival_date >= departure_city.departure_date)

hour_floor(dt_time) == dt_time \div 60
increment_hour(hour) == (hour + 1) % 24
hour_ceil(dt_time) ==
  IF dt_time % 60 = 0 THEN dt_time \div 60 ELSE increment_hour(dt_time \div 60)

\* TimeRange.convert_time_range_to_hour_range
ConvertTimeRangeToHourRange(time_range) ==
  LET earliest_hour == IF time_range.earliest = None THEN None
                       ELSE hour_floor(time_range.earliest)
      latest_hour == IF time_range.latest = None THEN None
                     ELSE IF earliest_hour # None /\ hour_ceil(time_range.latest) <= earliest_hour
                          THEN increment_hour(hour_ceil(time_range.latest))
                          ELSE hour_ceil(time_range.latest)
  IN <<earliest_hour, latest_hour>>

\* ------------------------------------------------------------------------
\* Canonical hashes (src/flight_hash.py, src/city.py)
\* ------------------------------------------------------------------------
\* hash(...) of a tuple is modelled by the tuple itself.
RECURSIVE Insert(_, _)
Insert(x, sorted) ==
  IF sorted = <<>> THEN <<x>>
  ELSE IF x <= Head(sorted) THEN <<x>> \o sorted
  ELSE <<Head(sorted)>> \o Insert(x, Tail(sorted))

RECURSIVE Sorted(_)
Sorted(seq) == IF seq = <<>> THEN <<>> ELSE Insert(Head(seq), Sorted(Tail(seq)))

Elements(seq) == {seq[i] : i \in 1..Len(seq)}

\* hash_layover_restrictions of an optional LayoverRestrictions.
HashLayoverRestrictions(restrictions) ==
  IF restrictions = <<>> THEN <<>>
  ELSE <<IF restrictions[1].airports = <<>> THEN <<>>
         ELSE IF restrictions[1].airports[1] = <<>> THEN <<>>
         ELSE <<Sorted(restrictions[1].airports[1])>>,
         restrictions[1].max_duration>>

\* DepartureFlightFilter.hash: the airlines are hashed in the order given.
FilterHash(filter) ==
  <<filter.stops, filter.seat_type, filter.price_limit,
    IF filter.airlines = <<>> THEN <<>>
    ELSE IF filter.airlines[1] = <<>> THEN <<>> ELSE filter.airlines,
    filter.max_duration, HashLayoverRestrictions(filter.layover_restrictions)>>

\* City.id
CityId(city) == Sorted(city.airports)

\* City.hash hashes the two TimeRange objects; TimeRange is a dataclass with
\* eq and without __hash__ of its own, hence unhashable: the hash of a city
\* that has a time range raises TypeError.
CityHashable(city) ==
  city.arrival_time_range = NoRange /\ city.departure_time_range = NoRange

CityHash(city) ==
  <<Sorted(city.airports), city.arrival_date, city.arrival_time_range,
    city.departure_date, city.departure_time_range,
    FilterHash(city.departure_flight_filter)>>

HashFlightSegment(flight_segment) ==
  <<Sorted(flight_segment.departure_airport), Sorted(flight_segment.arrival_airport),
    flight_segment.travel_date, flight_segment.time_restrictions>>

\* Mutant: the airlines are hashed in the order given.
HashFlightQuery_AirlinesUnsorted(query) ==
  <<query.trip_type, query.passenger_info,
    [i \in 1..Len(query.flight_segments) |-> HashFlightSegment(query.flight_segments[i])],
    query.stops, query.seat_type, query.price_limit,
    IF query.airlines = <<>> THEN <<>>
    ELSE IF query.airlines[1] = <<>> THEN <<>> ELSE query.airlines,
    query.max_duration, HashLayoverRestrictions(query.layover_restrictions),
    query.sort_by>>

HashFlightQuery(query) ==
  <<query.trip_type, query.passenger_info,
    [i \in 1..Len(query.flight_segments) |-> HashFlightSegment(query.flight_segments[i])],
    query.stops, query.seat_type, query.price_limit,
    IF query.airlines = <<>> THEN <<>>
    ELSE IF query.airlines[1] = <<>> THEN <<>> ELSE <<Sorted(query.airlines[1])>>,
    query.max_duration, HashLayoverRestrictions(query.layover_restrictions),
    query.sort_by>>

\* ------------------------------------------------------------------------
\* City.create_flight_search_query (src/city.py)
\* ------------------------------------------------------------------------
TRIP_ONE_WAY == "TripType.ONE_WAY"
TRIP_ROUND_TRIP == "TripType.ROUND_TRIP"

HourRangeOf(time_range) ==
  IF time_range = NoRange THEN <<None, None>>
  ELSE ConvertTimeRangeToHourRange(time_range)

\* The two assertions of lines 134-135.
CanCreateFlightSearchQuery(departure_city, arrival_city) ==
  /\ departure_city.departure_date # None
  /\ (arrival_city.arrival_date = None
      \/ arrival_city.arrival_date >= departure_city.departure_date)

CreateFlightSearchQuery(departure_city, arrival_city) ==
  [trip_type |-> TRIP_ONE_WAY,
   passenger_info |-> <<1, 0, 0, 0>>,
   flight_segments |->
     <<[departure_airport |-> departure_city.airports,
        arrival_airport |-> arrival_city.airports,
        travel_date |-> departure_city.departure_date,
        time_restrictions |-> HourRangeOf(departure_city.departure_time_range)
                              \o HourRangeOf(arrival_city.arrival_time_range)]>>,
   stops |-> departure_city.departure_flight_filter.stops,
   seat_type |-> departure_city.departure_flight_filter.seat_type,
   price_limit |-> departure_city.departure_flight_filter.price_limit,
   airlines |-> departure_city.departure_flight_filter.airlines,
   max_duration |-> departure_city.departure_flight_filter.max_duration,
   layover_restrictions |-> departure_city.departure_flight_filter.layover_restrictions,
   sort_by |-> "NONE"]

\* ------------------------------------------------------------------------
\* merge_flight_queries (src/flight_info.py)
\* ------------------------------------------------------------------------
Max(a, b) == IF a >= b THEN a ELSE b

\* Mutant: the airports of the two legs are not compared.
CanMerge_NoMirrorCheck(departing_query, returning_query) ==
  /\ departing_query.trip_type = TRIP_ONE_WAY
  /\ returning_query.trip_type = TRIP_ONE_WAY
  /\ departing_query.passenger_info = returning_query.passenger_info
  /\ departing_query.seat_type = returning_query.seat_type
  /\ departing_query.sort_by = returning_query.sort_by
  /\ Len(departing_query.flight_segments) = 1
  /\ Len(returning_query.flight_segments) = 1

\* The assertions of lines 151-163.
CanMerge(departing_query, returning_query) ==
  /\ departing_query.trip_type = TRIP_ONE_WAY
  /\ returning_query.trip_type = TRIP_ONE_WAY
  /\ departing_query.passenger_info = returning_query.passenger_info
  /\ departing_query.seat_type = returning_query.seat_type
  /\ departing_query.sort_by = returning_query.sort_by
  /\ Len(departing_query.flight_segments) = 1
  /\ Len(returning_query.flight_segments) = 1
  /\ Elements(departing_query.flight_segments[1].departure_airport)
       = Elements(returning_query.flight_segments[1].arrival_airport)
  /\ Elements(departing_query.flight_segments[1].arrival_airport)
       = Elements(returning_query.flight_segments[1].departure_airport)

\* list(set(a + b)): the elements without duplicates, in some order.
UnionList(a, b) == SetToSeq(Elements(a) \cup Elements(b))

MergedLayoverRestrictions(departing, returning) ==
  IF departing = <<>> \/ returning = <<>> THEN <<>>
  ELSE <<[airports |->
            IF departing[1].airports = <<>> \/ returning[1].airports = <<>> THEN <<>>
            ELSE <<UnionList(departing[1].airports[1], returning[1].airports[1])>>,
          max_duration |->
            IF departing[1].max_duration = None \/ returning[1].max_duration = None
            THEN None
            ELSE Max(departing[1].max_duration, returning[1].max_duration)]>>

\* Mutant: the merged query keeps the departing query's price limit.
MergeFlightQueries_DepartingPrice(departing_query, returning_query) ==
  [trip_type |-> TRIP_ROUND_TRIP,
   passenger_info |-> departing_query.passenger_info,
   flight_segments |-> <<departing_query.flight_segments[1],
                         returning_query.flight_segments[1]>>,
   stops |-> Max(departing_query.stops, returning_query.stops),
   seat_type |-> departing_query.seat_type,
   price_limit |-> departing_query.price_limit,
   airlines |->
     IF departing_query.airlines = <<>> \/ returning_query.airlines = <<>> THEN <<>>
     ELSE <<UnionList(departing_query.airlines[1], returning_query.airlines[1])>>,
   max_duration |->
     IF departing_query.max_duration = None \/ returning_query.max_duration = None
     THEN None ELSE Max(departing_query.max_duration, returning_query.max_duration),
   layover_restrictions |->
     MergedLayoverRestrictions(departing_query.layover_restrictions,
                               returning_query.layover_restrictions),
   sort_by |-> departing_query.sort_by]

MergeFlightQueries(departing_query, returning_query) ==
  [trip_type |-> TRIP_ROUND_TRIP,
   passenger_info |-> departing_query.passenger_info,
   flight_segments |-> <<departing_query.flight_segments[1],
                         returning_query.flight_segments[1]>>,
   stops |-> Max(departing_query.stops, returning_query.stops),
   seat_type |-> departing_query.seat_type,
   price_limit |->
     IF departing_query.price_limit = None \/ returning_query.price_limit = None
     THEN None ELSE departing_query.price_limit + returning_query.price_limit,
   airlines |->
     IF departing_query.airlines = <<>> \/ returning_query.airlines = <<>> THEN <<>>
     ELSE <<UnionList(departing_query.airlines[1], returning_query.airlines[1])>>,
   max_duration |->
     IF departing_query.max_duration = None \/ returning_query.max_duration = None
     THEN None ELSE Max(departing_query.max_duration, returning_query.max_duration),
   layover_restrictions |->
     MergedLayoverRestrictions(departing_query.layover_restrictions,
                               returning_query.layover_restrictions),
   sort_by |-> departing_query.sort_by]

\* ------------------------------------------------------------------------
\* extract_queries (src/flight_itinerary.py)
\* ------------------------------------------------------------------------
\* A dict is the set of its <<key, value>> items; the query registry is the
\* sequence of its values in insertion order, keyed by hash_flight_query.
Has(items, key) == \E e \in items : e[1] = key
Get(items, key) == (CHOOSE e \in items : e[1] = key)[2]
Put(items, key, value) == {e \in items : e[1] # key} \cup {<<key, value>>}

Registered(registry, query_hash) ==
  \E i \in 1..Len(registry) : HashFlightQuery(registry[i]) = query_hash

\* if query_hash not in query_hash_to_query: query_hash_to_query[query_hash] = query
Register(registry, query) ==
  IF Registered(registry, HashFlightQuery(query)) THEN registry
  ELSE Append(registry, query)

Raise(acc, exception) == [acc EXCEPT !.status = exception]

\* Lines 273-287: if the reversed path was seen, merge into a round trip.
MergeReversed(acc, one_way_query, city_hashes, flight_path) ==
  LET reversed_flight_path == <<flight_path[2], flight_path[1]>>
  IN IF ~Has(acc.flight_paths_to_query, reversed_flight_path) THEN acc
     ELSE LET departing_query == Get(acc.flight_paths_to_query, reversed_flight_path)
          IN IF ~CanMerge(departing_query, one_way_query)
             THEN Raise(acc, "AssertionError")
             ELSE LET round_trip_query == MergeFlightQueries(departing_query, one_way_query)
                      departing_entry == Get(acc.query_hash_to_city_hashes,
                                             HashFlightQuery(departing_query))
                  IN IF departing_entry[2] # <<>>
                     THEN Raise([acc EXCEPT !.registry = Register(@, round_trip_query)],
                                "AssertionError")
                     ELSE [acc EXCEPT
                             !.registry = Register(@, round_trip_query),
                             !.query_hash_to_city_hashes =
                               Put(@, HashFlightQuery(round_trip_query),
                                   <<departing_entry[1], <<city_hashes>>>>)]

\* One iteration of the loop of lines 250-287.
ExtractStep(departure_city, arrival_city, acc) ==
  IF ~CanCreateFlightSearchQuery(departure_city, arrival_city)
  THEN Raise(acc, "AssertionError")
  ELSE
    LET one_way_query == CreateFlightSearchQuery(departure_city, arrival_city)
        query_hash == HashFlightQuery(one_way_query)
        acc1 == [acc EXCEPT !.registry = Register(@, one_way_query)]
    IN IF ~(CityHashable(departure_city) /\ CityHashable(arrival_city))
       THEN Raise(acc1, "TypeError")
       ELSE
         LET city_hashes == <<CityHash(departure_city), CityHash(arrival_city)>>
             flight_path == <<CityId(departure_city), CityId(arrival_city)>>
         IN IF /\ Has(acc1.query_hash_to_city_hashes, query_hash)
               /\ Get(acc1.query_hash_to_city_hashes, query_hash) # <<city_hashes, <<>>>>
            THEN Raise(acc1, "AssertionError")
            ELSE IF Has(acc1.flight_paths_to_query, flight_path)
            THEN Raise([acc1 EXCEPT !.query_hash_to_city_hashes =
                                      Put(@, query_hash, <<city_hashes, <<>>>>)],
                       "AssertionError")
            ELSE MergeReversed(
                   [acc1 EXCEPT
                      !.query_hash_to_city_hashes = Put(@, query_hash, <<city_hashes, <<>>>>),
                      !.flight_paths_to_query = Put(@, flight_path, one_way_query)],
                   one_way_query, city_hashes, flight_path)

RECURSIVE ExtractFrom(_, _, _)
ExtractFrom(cities, i, acc) ==
  IF acc.status # "ok" \/ i > Len(cities) - 1 THEN acc
  ELSE ExtractFrom(cities, i + 1, ExtractStep(cities[i], cities[i + 1], acc))

\* extract_queries: the status, the registry updated in place and the
\* returned query_hash_to_city_hashes.
ExtractQueries(cities, registry) ==
  ExtractFrom(cities, 1,
              [status |-> "ok", registry |-> registry,
               query_hash_to_city_hashes |-> {}, flight_paths_to_query |-> {}])

\* ------------------------------------------------------------------------
\* get_queries (src/flight_itinerary.py)
\* ------------------------------------------------------------------------
\* Lines 324-336: one city itinerary of a template.
QueriesOfItinerary(out, city_itinerary, min_stay, max_stay) ==
  LET extracted == ExtractQueries(city_itinerary, out.query_hash_to_query)
  IN IF extracted.status # "ok" THEN [out EXCEPT !.status = extracted.status]
     ELSE [out EXCEPT
             !.query_hash_to_query = extracted.registry,
             !.query_hash_to_set_city_hashes = @ \cup extracted.query_hash_to_city_hashes,
             !.city_itineraries = Append(@, city_itinerary),
             !.min_stay_hours_list = Append(@, min_stay),
             !.max_stay_hours_list = Append(@, max_stay)]

RECURSIVE QueriesOfItineraries(_, _, _, _, _)
QueriesOfItineraries(out, itineraries, n, min_stay, max_stay) ==
  IF out.status # "ok" \/ n > Len(itineraries) THEN out
  ELSE QueriesOfItineraries(QueriesOfItinerary(out, itineraries[n], min_stay, max_stay),
                            itineraries, n + 1, min_stay, max_stay)

\* Lines 312-336: one template.
QueriesOfTemplate(out, city_range_list) ==
  LET stops == 1..(Len(city_range_list) - 1)
  IN QueriesOfItineraries(out, GetCityItineraries(city_range_list), 1,
                          [i \in stops |-> city_range_list[i].min_stay_hours],
                          [i \in stops |-> city_range_list[i].max_stay_hours])

RECURSIVE QueriesOfTemplates(_, _, _)
QueriesOfTemplates(out, templates, t) ==
  IF out.status # "ok" \/ t > Len(templates) THEN out
  ELSE QueriesOfTemplates(QueriesOfTemplate(out, templates[t]), templates, t + 1)

GetQueries(templates) ==
  QueriesOfTemplates([status |-> "ok", city_itineraries |-> <<>>,
                      min_stay_hours_list |-> <<>>, max_stay_hours_list |-> <<>>,
                      query_hash_to_query |-> <<>>,
                      query_hash_to_set_city_hashes |-> {}],
                     templates, 1)

\* ------------------------------------------------------------------------
\* State machine of get_queries
\* ------------------------------------------------------------------------
\* One template that alternates between two cities; every city states its
\* cabin class and may state a departure date range and a departure window.
SeatChoices == {ECONOMY, BUSINESS}
DepartureDateChoices == {NoRange, Range(1, 1), Range(1, 2)}
DepartureTimeChoices == {NoRange, Range(360, 480)}

QueryTemplate(n, seats, dates, times) ==
  [i \in 1..n |->
     CityRange(TemplateAirports(i), None, None, NoRange, NoRange,
               dates[i], times[i], DepartureFlightFilter(seats[i]))]

InitQueries ==
  /\ comp = "queries"
  /\ GenIdle /\ CityIdle /\ SearchIdle /\ CallIdle /\ SfiIdle
  /\ \E n \in 2..MaxCities :
       \E seats \in [1..n -> SeatChoices] :
         \E dates \in [1..n -> DepartureDateChoices] :
           \E times \in [1..n -> DepartureTimeChoices] :
             city_ranges_list = <<QueryTemplate(n, seats, dates, times)>>
  /\ q_status = "idle"
  /\ q_city_itineraries = <<>>
  /\ q_stay_hours_list = <<>>
  /\ query_hash_to_query = <<>>
  /\ query_hash_to_set_city_hashes = {}

\* get_queries returns its five values, or raises and returns nothing.
GetQueriesCall ==
  /\ comp = "queries"
  /\ q_status = "idle"
  /\ LET out == GetQueries(city_ranges_list)
     IN /\ q_status' = out.status
        /\ IF out.status = "ok"
           THEN /\ q_city_itineraries' = out.city_itineraries
                /\ q_stay_hours_list' = <<out.min_stay_hours_list, out.max_stay_hours_list>>
                /\ query_hash_to_query' = out.query_hash_to_query
                /\ query_hash_to_set_city_hashes' = out.query_hash_to_set_city_hashes
           ELSE UNCHANGED <<q_city_itineraries, q_stay_hours_list,
                            query_hash_to_query, query_hash_to_set_city_hashes>>
  /\ UNCHANGED <<comp, sfiVars, callVars, genVars, cityVars, city_ranges_list, searchVars>>

NextQueries == GetQueriesCall

SpecQueries == InitQueries /\ [][NextQueries]_vars

\* ------------------------------------------------------------------------
\* Properties of get_queries
\* ------------------------------------------------------------------------
\* The template holds a mirrored pair of legs A -> B -> A whose one-way
\* queries can be built (both departure dates are single days, no time
\* windows anywhere) and differ in cabin class only.
MirroredPairDiffersInCabin ==
  /\ city_ranges_list # <<>>
  /\ LET template == city_ranges_list[1]
     IN /\ Len(template) = 3
        /\ \A i \in 1..3 :
             /\ template[i].departure_time_range = NoRange
             /\ template[i].departure_date_range = Range(1, 1)
        /\ template[1].departure_flight_filter.seat_type
             # template[2].departure_flight_filter.seat_type

\* C7: with a mirrored pair whose two one-way queries differ in cabin class,
\* query extraction completes and both legs are registered as separate
\* one-way queries.
C7_MergeFailureKeepsOneWays ==
  (q_status # "idle" /\ MirroredPairDiffersInCabin) =>
    /\ q_status = "ok"
    /\ Len(q_city_itineraries) = 1
    /\ \A i \in 1..2 :
         Registered(query_hash_to_query,
                    HashFlightQuery(CreateFlightSearchQuery(q_city_itineraries[1][i],
                                                            q_city_itineraries[1][i + 1])))

\* ------------------------------------------------------------------------
\* search_flights (src/flight_info.py)
\* ------------------------------------------------------------------------
\* What SearchFlights().search does for a query: it returns None, it raises,
\* or it returns a list whose items are flight results (one-way query) or
\* pairs of flight results (round-trip query).
ReturnsNone == [kind |-> "none"]
Raises == [kind |-> "raise"]
Results(items) == [kind |-> "results", items |-> items]

FlightResult(price, dep, arr) == [price |-> price, dep |-> dep, arr |-> arr]
OneWayItem(result) == [pair |-> FALSE, flight |-> result]
PairItem(departing, returning) ==
  [pair |-> TRUE, departing |-> departing, returning |-> returning]

IndexOfId(flights, id) ==
  IF \E i \in 1..Len(flights) : FlightId(flights[i]) = id
  THEN CHOOSE i \in 1..Len(flights) : FlightId(flights[i]) = id
  ELSE 0

\* if flight.id not in flights: flights[flight.id] = flight
AddFlight(flights, flight) ==
  IF IndexOfId(flights, FlightId(flight)) # 0 THEN flights ELSE Append(flights, flight)

\* Mutant: the returning flight keeps the price of its own offer.
SearchItem_OwnPrice(item, found) ==
  IF item.pair
  THEN LET departing_flight ==
             FlightInfo(ROUND_TRIP_DEPARTING, 0, item.departing.dep, item.departing.arr, <<>>)
           returning_flight ==
             FlightInfo(ROUND_TRIP_RETURNING, item.returning.price,
                        item.returning.dep, item.returning.arr, <<>>)
           returning == AddFlight(found[2], returning_flight)
           at == IndexOfId(returning, FlightId(returning_flight))
       IN <<AddFlight(found[1], departing_flight),
            [returning EXCEPT ![at].parent_ids = Append(@, FlightId(departing_flight))]>>
  ELSE <<AddFlight(found[1], FlightInfo(ONE_WAY, item.flight.price, item.flight.dep,
                                         item.flight.arr, <<>>)),
         found[2]>>

\* Lines 227-254: one item of the provider's list.
SearchItem(item, found) ==
  IF item.pair
  THEN LET departing_flight ==
             FlightInfo(ROUND_TRIP_DEPARTING, 0, item.departing.dep, item.departing.arr, <<>>)
           returning_flight ==
             FlightInfo(ROUND_TRIP_RETURNING, Max(item.departing.price, item.returning.price),
                        item.returning.dep, item.returning.arr, <<>>)
           returning == AddFlight(found[2], returning_flight)
           at == IndexOfId(returning, FlightId(returning_flight))
       IN <<AddFlight(found[1], departing_flight),
            [returning EXCEPT ![at].parent_ids = Append(@, FlightId(departing_flight))]>>
  ELSE <<AddFlight(found[1], FlightInfo(ONE_WAY, item.flight.price, item.flight.dep,
                                         item.flight.arr, <<>>)),
         found[2]>>

RECURSIVE SearchItems(_, _, _)
SearchItems(items, i, found) ==
  IF i > Len(items) THEN found
  ELSE SearchItems(items, i + 1, SearchItem(items[i], found))

\* The first component of what search_flights returns, given what the
\* provider returned: (departing_flights, returning_flights).
SearchFlights(response) ==
  IF response.kind = "none" THEN <<<<>>, <<>>>>
  ELSE SearchItems(response.items, 1, <<<<>>, <<>>>>)

\* ------------------------------------------------------------------------
\* State machine of search_flights_parallel (src/flight_info.py)
\* ------------------------------------------------------------------------
\* The queries of a dispatch are denoted by their hashes 1..n.  The offers of
\* a provider: the same one-way flight twice, or two round trips that share
\* their returning flight.
OneWayOffers ==
  Results(<<OneWayItem(FlightResult(100, 0, 1)), OneWayItem(FlightResult(100, 0, 1))>>)

RoundTripOffers ==
  Results(<<PairItem(FlightResult(500, 0, 1), FlightResult(700, 4, 5)),
            PairItem(FlightResult(500, 1, 2), FlightResult(700, 4, 5))>>)

ProviderChoices == {ReturnsNone, Raises, OneWayOffers, RoundTripOffers}

\* search_flights_parallel runs on its own, or called by
\* search_flight_itineraries.
Dispatching == comp \in {"search", "itineraries"}

\* query_hash_to_flight_infos is a dict in insertion order: the sequence of
\* its <<key, value>> items.  d[key] = value keeps the place of a key that
\* is present.
SetItem(items, key, value) ==
  IF \E i \in 1..Len(items) : items[i][1] = key
  THEN [i \in 1..Len(items) |-> IF items[i][1] = key THEN <<key, value>> ELSE items[i]]
  ELSE Append(items, <<key, value>>)

Keys(items) == {items[i][1] : i \in 1..Len(items)}

InitSearch ==
  /\ comp = "search"
  /\ GenIdle /\ CityIdle /\ QueryIdle /\ CallIdle /\ SfiIdle
  /\ \E n \in 0..MaxQueries :
       /\ flight_queries = [i \in 1..n |-> i]
       /\ provider \in [1..n -> ProviderChoices]
  /\ futs = <<>>
  /\ disp_pc = "idle"
  /\ disp_error = "none"
  /\ query_hash_to_flight_infos = <<>>

\* Lines 263-266: ThreadPoolExecutor(max_workers=len(flight_queries)) raises
\* ValueError for no worker; otherwise every query is submitted.
Submit ==
  /\ Dispatching
  /\ disp_pc = "idle"
  /\ IF Len(flight_queries) = 0
     THEN /\ disp_pc' = "raised"
          /\ disp_error' = "ValueError"
          /\ UNCHANGED futs
     ELSE /\ disp_pc' = "collecting"
          /\ futs' = [q \in 1..Len(flight_queries) |-> "running"]
          /\ UNCHANGED disp_error
  /\ UNCHANGED <<comp, sfiVars, callVars, genVars, cityVars, queryVars, flight_queries, provider,
                 query_hash_to_flight_infos>>

\* A worker thread ends its call of search_flights: the future holds the
\* result, or the exception the provider raised (nothing catches it).
WorkerFinish(q) ==
  /\ Dispatching
  /\ disp_pc # "idle"
  /\ futs[q] = "running"
  /\ futs' = [futs EXCEPT ![q] = IF provider[q].kind = "raise"
                                 THEN "exception" ELSE "result"]
  /\ UNCHANGED <<comp, sfiVars, callVars, genVars, cityVars, queryVars, flight_queries, provider,
                 disp_pc, disp_error, query_hash_to_flight_infos>>

\* Lines 269-271: as_completed yields a finished future; fut.result() returns
\* the result or re-raises the exception out of search_flights_parallel.
Collect(q) ==
  /\ Dispatching
  /\ disp_pc = "collecting"
  /\ futs[q] \in {"result", "exception"}
  /\ IF futs[q] = "exception"
     THEN /\ disp_pc' = "raised"
          /\ disp_error' = "ProviderError"
          /\ UNCHANGED <<futs, query_hash_to_flight_infos>>
     ELSE /\ futs' = [futs EXCEPT ![q] = "collected"]
          /\ query_hash_to_flight_infos' =
               SetItem(query_hash_to_flight_infos, flight_queries[q],
                       SearchFlights(provider[q]))
          /\ UNCHANGED <<disp_pc, disp_error>>
  /\ UNCHANGED <<comp, sfiVars, callVars, genVars, cityVars, queryVars, flight_queries, provider>>

\* Line 272.
Return ==
  /\ Dispatching
  /\ disp_pc = "collecting"
  /\ \A q \in 1..Len(futs) : futs[q] = "collected"
  /\ disp_pc' = "returned"
  /\ UNCHANGED <<comp, sfiVars, callVars, genVars, cityVars, queryVars, flight_queries, provider,
                 futs, disp_error, query_hash_to_flight_infos>>

NextSearch ==
  \/ Submit
  \/ \E q \in 1..Len(futs) : WorkerFinish(q)
  \/ \E q \in 1..Len(futs) : Collect(q)
  \/ Return

SpecSearch == InitSearch /\ [][NextSearch]_vars

\* ------------------------------------------------------------------------
\* Properties of search_flights_parallel
\* ------------------------------------------------------------------------
Failing(q) == provider[q].kind \in {"none", "raise"}

\* C8: a provider call that returns no result or raises never aborts the
\* batch, and the returned map holds the empty offer lists for that query's
\* hash and the results of every other query.
C8_FailureYieldsEmpty ==
  /\ disp_error # "ProviderError"
  /\ disp_pc = "returned" =>
       \A q \in 1..Len(flight_queries) :
         /\ flight_queries[q] \in Keys(query_hash_to_flight_infos)
         /\ Get(Elements(query_hash_to_flight_infos), flight_queries[q]) =
              IF Failing(q) THEN <<<<>>, <<>>>> ELSE SearchFlights(provider[q])

\* ------------------------------------------------------------------------
\* State machine of CityRange.get_all_possible_city_configurations
\* ------------------------------------------------------------------------
\* One CityRange: its stay bounds in hours, its date ranges over the days
\* 1..MaxDay (absent, bounded, or lacking the latest bound) and its time
\* windows (absent, bounded, or lacking the earliest bound).
StayHoursChoices == {None, 0, 12, 30}

ExpandDateChoices ==
  {NoRange, Range(1, None)}
  \cup {Range(ab[1], ab[2]) : ab \in {ab \in (1..MaxDay) \X (1..MaxDay) : ab[1] <= ab[2]}}

ExpandTimeChoices == {NoRange, Range(360, 480), Range(None, 480), Range(1200, 1320)}

InitExpand ==
  /\ comp = "expand"
  /\ GenIdle /\ CityIdle /\ QueryIdle /\ SearchIdle /\ SfiIdle
  /\ \E min_stay \in StayHoursChoices, max_stay \in StayHoursChoices :
       \E arr_dates \in ExpandDateChoices, dep_dates \in ExpandDateChoices :
         \E arr_times \in ExpandTimeChoices, dep_times \in ExpandTimeChoices :
           call_args = CityRange(LHR, min_stay, max_stay, arr_dates, arr_times,
                                 dep_dates, dep_times, DepartureFlightFilter(BUSINESS))
  /\ call_status = "idle"
  /\ call_result = <<>>

Expand ==
  /\ comp = "expand"
  /\ call_status = "idle"
  /\ call_result' = GetAllPossibleCityConfigurations(call_args)
  /\ call_status' = "ok"
  /\ UNCHANGED <<comp, sfiVars, genVars, cityVars, queryVars, searchVars, call_args>>

NextExpand == Expand

SpecExpand == InitExpand /\ [][NextExpand]_vars

\* ------------------------------------------------------------------------
\* Properties of get_all_possible_city_configurations
\* ------------------------------------------------------------------------
Expanded == comp = "expand" /\ call_status = "ok"

Kept(arrival_date, departure_date) ==
  \E i \in Positions(call_result) :
    /\ call_result[i].arrival_date = arrival_date
    /\ call_result[i].departure_date = departure_date

\* maxStay and minStay as the claim states them, in minutes (<<>> when not
\* computable): from the time bounds when both windows have the needed bound,
\* the whole-day difference only when no time window exists at all.
ClaimedStay(cr, arrival_date, departure_date, arrival_bound, departure_bound) ==
  IF cr.arrival_time_range = NoRange /\ cr.departure_time_range = NoRange
  THEN Some((departure_date - arrival_date) * 1440)
  ELSE IF cr.arrival_time_range = NoRange \/ cr.departure_time_range = NoRange
  THEN <<>>
  ELSE IF cr.arrival_time_range[arrival_bound] = None
          \/ cr.departure_time_range[departure_bound] = None
  THEN <<>>
  ELSE Some(Combine(departure_date, cr.departure_time_range[departure_bound])
            - Combine(arrival_date, cr.arrival_time_range[arrival_bound]))

ClaimedDrop(cr, arrival_date, departure_date) ==
  LET max_stay == ClaimedStay(cr, arrival_date, departure_date, "earliest", "latest")
      min_stay == ClaimedStay(cr, arrival_date, departure_date, "latest", "earliest")
  IN \/ cr.min_stay_hours # None /\ max_stay # <<>> /\ max_stay[1] < cr.min_stay_hours * 60
     \/ cr.max_stay_hours # None /\ min_stay # <<>> /\ min_stay[1] > cr.max_stay_hours * 60

\* C11: a pair of present dates with arrival <= departure is dropped iff
\* (min_stay_hours is set and maxStay < min_stay_hours) or (max_stay_hours is
\* set and minStay > max_stay_hours), maxStay and minStay being computed from
\* the time bounds when both windows have them and from the whole-day
\* difference only when no time window exists.
C11_DroppedIffStayBroken ==
  Expanded =>
    LET arrivals == DatesOf(call_args.arrival_date_range)
        departures == DatesOf(call_args.departure_date_range)
    IN \A a \in Positions(arrivals), d \in Positions(departures) :
         (arrivals[a] # None /\ departures[d] # None /\ arrivals[a] <= departures[d]) =>
           (~Kept(arrivals[a], departures[d])
              <=> ClaimedDrop(call_args, arrivals[a], departures[d]))

\* The dates a date range contributes as the claim states it: the single
\* absent date when the range or one of its bounds is missing.
ContributedDates(date_range) ==
  IF date_range = NoRange THEN {None}
  ELSE IF date_range.earliest = None \/ date_range.latest = None THEN {None}
  ELSE date_range.earliest..date_range.latest

\* C12: every returned City has arrival_date <= departure_date when both are
\* present and carries the airports, time windows and filter of the
\* CityRange; its dates are a pair of the cross product of the two date
\* ranges (a range lacking a bound contributes the absent date); no pair
\* yields two Cities; and a pair survives whenever a date is absent, or the
\* dates are in order and the CityRange sets no stay bound.
C12_OneCityPerSurvivingPair ==
  Expanded =>
    LET arrivals == ContributedDates(call_args.arrival_date_range)
        departures == ContributedDates(call_args.departure_date_range)
    IN /\ \A i \in Positions(call_result) :
            LET city == call_result[i]
            IN /\ city.arrival_date \in arrivals
               /\ city.departure_date \in departures
               /\ (city.arrival_date # None /\ city.departure_date # None)
                    => city.arrival_date <= city.departure_date
               /\ city.airports = call_args.airports
               /\ city.arrival_time_range = call_args.arrival_time_range
               /\ city.departure_time_range = call_args.departure_time_range
               /\ city.departure_flight_filter = call_args.departure_flight_filter
               /\ \A j \in Positions(call_result) :
                    (call_result[j].arrival_date = city.arrival_date
                     /\ call_result[j].departure_date = city.departure_date) => j = i
       /\ \A a \in arrivals, d \in departures :
            (\/ a = None
             \/ d = None
             \/ (a <= d /\ call_args.min_stay_hours = None
                        /\ call_args.max_stay_hours = None))
              => Kept(a, d)

\* Both date ranges span two days: the pair whose arrival is after its
\* departure is dropped and the pairs in order are kept.
C12_Witness ==
  /\ Expanded
  /\ call_args.arrival_date_range = Range(1, 2)
  /\ call_args.departure_date_range = Range(1, 2)
  /\ ~Kept(2, 1)
  /\ Kept(1, 1) /\ Kept(1, 2) /\ Kept(2, 2)
  /\ Len(call_result) = 3

\* ------------------------------------------------------------------------
\* State machine of TimeRange.convert_time_range_to_hour_range
\* ------------------------------------------------------------------------
\* The times of day on the half hours, in minutes; a TimeRange has earliest
\* <= latest when both are set (Range.__post_init__).
TimeChoices == {h * 60 + m : h \in 0..23, m \in {0, 30}}

TimeRanges ==
  {Range(el[1], el[2]) :
     el \in {el \in (TimeChoices \cup {None}) \X (TimeChoices \cup {None}) :
               el[1] = None \/ el[2] = None \/ el[1] <= el[2]}}

InitHours ==
  /\ comp = "hours"
  /\ GenIdle /\ CityIdle /\ QueryIdle /\ SearchIdle /\ SfiIdle
  /\ call_args \in TimeRanges
  /\ call_status = "idle"
  /\ call_result = <<>>

Convert ==
  /\ comp = "hours"
  /\ call_status = "idle"
  /\ call_result' = ConvertTimeRangeToHourRange(call_args)
  /\ call_status' = "ok"
  /\ UNCHANGED <<comp, sfiVars, genVars, cityVars, queryVars, searchVars, call_args>>

NextHours == Convert

SpecHours == InitHours /\ [][NextHours]_vars

\* C13: for every TimeRange with both bounds present the returned latest
\* hour is strictly greater than the returned earliest hour.
C13_HourWindowNotDegenerate ==
  (comp = "hours" /\ call_status = "ok"
   /\ call_args.earliest # None /\ call_args.latest # None)
    => call_result[2] > call_result[1]

\* ------------------------------------------------------------------------
\* State machine of the canonical hashes
\* ------------------------------------------------------------------------
\* Two objects x and y of one kind (two filters, two cities, two queries)
\* that differ at most in the order of their lists are hashed.  Airports and
\* airlines are denoted by the alphabetical rank of their names.  One list
\* and one reordering of it are drawn; every collection of the objects is
\* absent (where it may be), holds the list in both objects, or holds the
\* list in x and the reordering in y.
Codes == 1..MaxListLen

RECURSIVE ListsOf(_)
ListsOf(S) ==
  IF S = {} THEN {<<>>}
  ELSE UNION {{<<x>> \o l : l \in ListsOf(S \ {x})} : x \in S}

ReorderedPairs ==
  UNION {ListsOf(S) \X ListsOf(S) : S \in SUBSET Codes}

ListShapes == {"same", "reordered"}
OptionalListShapes == {"none", "same", "reordered"}
LayoverShapes == {"none", "no airports", "same", "reordered"}

\* The list a collection of shape `shape` holds in x (side 1) or y (side 2).
ListOf(shape, pair, side) == IF shape = "reordered" THEN pair[side] ELSE pair[1]

OptionalListOf(shape, pair, side) ==
  IF shape = "none" THEN <<>> ELSE <<ListOf(shape, pair, side)>>

LayoverRestrictions(airports, max_duration) ==
  [airports |-> airports, max_duration |-> max_duration]

LayoverOf(shape, pair, side) ==
  IF shape = "none" THEN <<>>
  ELSE IF shape = "no airports" THEN <<LayoverRestrictions(<<>>, None)>>
  ELSE <<LayoverRestrictions(<<ListOf(shape, pair, side)>>, None)>>

FilterOf(airlines, layover, pair, side) ==
  FlightFilter(ANY, ECONOMY, None, OptionalListOf(airlines, pair, side), None,
               LayoverOf(layover, pair, side))

CityOf(airports, time_range, airlines, layover, pair, side) ==
  City(ListOf(airports, pair, side), None, time_range, 1, NoRange,
       FilterOf(airlines, layover, pair, side))

\* A query as create_flight_search_query builds it, and the round trip of
\* the same leg and the leg back.
QueryOf(round_trip, departure, arrival, airlines, layover, pair, side) ==
  LET departure_city == CityOf(departure, NoRange, airlines, layover, pair, side)
      arrival_city == CityOf(arrival, NoRange, airlines, layover, pair, side)
      one_way == CreateFlightSearchQuery(departure_city, arrival_city)
  IN IF round_trip
     THEN MergeFlightQueries(one_way, CreateFlightSearchQuery(arrival_city, departure_city))
     ELSE one_way

InitHash ==
  /\ GenIdle /\ CityIdle /\ QueryIdle /\ SearchIdle /\ SfiIdle
  /\ call_status = "idle"
  /\ call_result = <<>>
  /\ \E pair \in ReorderedPairs, airlines \in OptionalListShapes, layover \in LayoverShapes :
       \/ /\ comp = "hash filter"
          /\ call_args = <<FilterOf(airlines, layover, pair, 1),
                           FilterOf(airlines, layover, pair, 2)>>
       \/ /\ comp = "hash city"
          /\ \E airports \in ListShapes, time_range \in {NoRange, Range(360, 480)} :
               call_args = <<CityOf(airports, time_range, airlines, layover, pair, 1),
                             CityOf(airports, time_range, airlines, layover, pair, 2)>>
       \/ /\ comp = "hash query"
          /\ \E departure \in ListShapes, arrival \in ListShapes, round_trip \in BOOLEAN :
               call_args = <<QueryOf(round_trip, departure, arrival, airlines, layover, pair, 1),
                             QueryOf(round_trip, departure, arrival, airlines, layover, pair, 2)>>

\* DepartureFlightFilter.hash of x and of y.
HashFilters ==
  /\ comp = "hash filter"
  /\ call_status = "idle"
  /\ call_result' = <<FilterHash(call_args[1]), FilterHash(call_args[2])>>
  /\ call_status' = "ok"
  /\ UNCHANGED <<comp, sfiVars, genVars, cityVars, queryVars, searchVars, call_args>>

\* City.hash of x and of y; hashing a TimeRange raises TypeError.
HashCities ==
  /\ comp = "hash city"
  /\ call_status = "idle"
  /\ IF CityHashable(call_args[1]) /\ CityHashable(call_args[2])
     THEN /\ call_result' = <<CityHash(call_args[1]), CityHash(call_args[2])>>
          /\ call_status' = "ok"
     ELSE /\ call_status' = "TypeError"
          /\ UNCHANGED call_result
  /\ UNCHANGED <<comp, sfiVars, genVars, cityVars, queryVars, searchVars, call_args>>

\* hash_flight_query of x and of y, and the registry after both queries were
\* registered (src/flight_itinerary.py:255-257).
HashQueries ==
  /\ comp = "hash query"
  /\ call_status = "idle"
  /\ call_result' = <<HashFlightQuery(call_args[1]), HashFlightQuery(call_args[2]),
                      Register(Register(<<>>, call_args[1]), call_args[2])>>
  /\ call_status' = "ok"
  /\ UNCHANGED <<comp, sfiVars, genVars, cityVars, queryVars, searchVars, call_args>>

NextHash == HashFilters \/ HashCities \/ HashQueries

SpecHash == InitHash /\ [][NextHash]_vars

\* ------------------------------------------------------------------------
\* Properties of the hashes
\* ------------------------------------------------------------------------
\* C14: two filters, and two cities carrying them, that differ only in the
\* order of the airline list, the layover-airport list or the city's airport
\* list hash identically (whenever both hashes exist).
C14_FilterAndCityHashIgnoreOrder ==
  (comp \in {"hash filter", "hash city"} /\ call_status = "ok") =>
    call_result[1] = call_result[2]

\* C15: two queries that differ only in the order of the airline list, the
\* layover-airport list and the airport lists of their flight segments have
\* the same hash, and registering both leaves one query in the registry.
C15_QueryHashIgnoresOrder ==
  (comp = "hash query" /\ call_status = "ok") =>
    /\ call_result[1] = call_result[2]
    /\ Len(call_result[3]) = 1

\* The two queries list their airlines, their layover airports and the
\* airports of a segment in different orders.
C15_Witness ==
  /\ comp = "hash query"
  /\ call_status = "ok"
  /\ call_args[1].airlines # call_args[2].airlines
  /\ call_args[1].layover_restrictions # call_args[2].layover_restrictions
  /\ call_args[1].flight_segments[1].departure_airport
       # call_args[2].flight_segments[1].departure_airport
  /\ call_result[1] = call_result[2]

\* ------------------------------------------------------------------------
\* More properties of get_queries
\* ------------------------------------------------------------------------
OneWayCorrelation(departure_city, arrival_city) ==
  <<HashFlightQuery(CreateFlightSearchQuery(departure_city, arrival_city)),
    <<<<CityHash(departure_city), CityHash(arrival_city)>>, <<>>>>>>

\* C16: get_queries completes on every template none of the code's
\* assertions rejects; then the registry holds one query per query hash, and
\* for every yielded city itinerary and every adjacent pair of its cities the
\* leg's one-way query is registered and its hash is correlated with
\* ((hash(c_i), hash(c_i+1)), None).
C16_RegistryAndCorrelation ==
  (comp = "queries" /\ q_status \notin {"idle", "AssertionError"}) =>
    /\ q_status = "ok"
    /\ \A i, j \in Positions(query_hash_to_query) :
         HashFlightQuery(query_hash_to_query[i]) = HashFlightQuery(query_hash_to_query[j])
           => i = j
    /\ \A n \in Positions(q_city_itineraries) :
         \A i \in 1..(Len(q_city_itineraries[n]) - 1) :
           LET correlation == OneWayCorrelation(q_city_itineraries[n][i],
                                                q_city_itineraries[n][i + 1])
           IN /\ Registered(query_hash_to_query, correlation[1])
              /\ correlation \in query_hash_to_set_city_hashes

LegSegment(city_itinerary, i) ==
  CreateFlightSearchQuery(city_itinerary[i], city_itinerary[i + 1]).flight_segments[1]

LegHashes(city_itinerary, i) ==
  <<CityHash(city_itinerary[i]), CityHash(city_itinerary[i + 1])>>

\* The pairs of legs i < j of an itinerary where leg j flies leg i backwards.
MirroredLegs(city_itinerary) ==
  {ij \in (1..(Len(city_itinerary) - 1)) \X (1..(Len(city_itinerary) - 1)) :
     /\ ij[1] < ij[2]
     /\ CityId(city_itinerary[ij[1]]) = CityId(city_itinerary[ij[2] + 1])
     /\ CityId(city_itinerary[ij[1] + 1]) = CityId(city_itinerary[ij[2]])}

\* The round-trip query a registered query q is for legs i and j: its
\* segments are leg i's then leg j's, and its hash is correlated with the
\* city hashes of leg i and of leg j.
IsRoundTripOf(q, city_itinerary, i, j) ==
  /\ q.trip_type = TRIP_ROUND_TRIP
  /\ q.flight_segments = <<LegSegment(city_itinerary, i), LegSegment(city_itinerary, j)>>
  /\ <<HashFlightQuery(q),
       <<LegHashes(city_itinerary, i), <<LegHashes(city_itinerary, j)>>>>>>
       \in query_hash_to_set_city_hashes

RoundTripRegistered(city_itinerary, i, j) ==
  \E k \in Positions(query_hash_to_query) :
    IsRoundTripOf(query_hash_to_query[k], city_itinerary, i, j)

LegQuery(city_itinerary, i) ==
  CreateFlightSearchQuery(city_itinerary[i], city_itinerary[i + 1])

\* None of the assertions of extract_queries, create_flight_search_query and
\* merge_flight_queries rejects the itinerary: every leg has its departure
\* date, no two legs fly the same path, mirrored legs are mergeable.
AssertionsHold(city_itinerary) ==
  LET legs == 1..(Len(city_itinerary) - 1)
  IN /\ \A i \in legs :
          CanCreateFlightSearchQuery(city_itinerary[i], city_itinerary[i + 1])
     /\ \A i, j \in legs :
          (i # j) => <<CityId(city_itinerary[i]), CityId(city_itinerary[i + 1])>>
                       # <<CityId(city_itinerary[j]), CityId(city_itinerary[j + 1])>>
     /\ \A ij \in MirroredLegs(city_itinerary) :
          CanMerge(LegQuery(city_itinerary, ij[1]), LegQuery(city_itinerary, ij[2]))

\* C17: for every city itinerary of a template whose itineraries pass the
\* assertions of the code, and every leg followed later by its reverse, the
\* round-trip query of the two legs (the earlier leg's segment, then the
\* later leg's) is registered with the combined correlation entry, and every
\* registered round-trip query is the one of such a pair of legs.
C17_MirroredLegsMerged ==
  (comp = "queries" /\ q_status # "idle") =>
    LET itineraries == GetCityItineraries(city_ranges_list[1])
    IN (\A n \in Positions(itineraries) : AssertionsHold(itineraries[n])) =>
         /\ \A n \in Positions(itineraries) :
              \A ij \in MirroredLegs(itineraries[n]) :
                RoundTripRegistered(itineraries[n], ij[1], ij[2])
         /\ \A k \in Positions(query_hash_to_query) :
              query_hash_to_query[k].trip_type = TRIP_ROUND_TRIP =>
                \E n \in Positions(itineraries) :
                  \E ij \in MirroredLegs(itineraries[n]) :
                    IsRoundTripOf(query_hash_to_query[k], itineraries[n], ij[1], ij[2])

\* ------------------------------------------------------------------------
\* State machine of merge_flight_queries
\* ------------------------------------------------------------------------
\* The one-way query of a leg with the default filter; the airports are
\* denoted by the ranks 1, 2 and 3 of their names.
LegQueryOf(departure_airports, arrival_airports) ==
  CreateFlightSearchQuery(
    City(departure_airports, None, NoRange, 1, NoRange, DepartureFlightFilter(ECONOMY)),
    City(arrival_airports, None, NoRange, None, NoRange, DepartureFlightFilter(ECONOMY)))

\* A query that may break a precondition of the merge.
PreconditionQuery(leg, trip_type, adults, seat_type, sort_by, segments) ==
  [LegQueryOf(leg[1], leg[2]) EXCEPT
     !.trip_type = trip_type,
     !.passenger_info = <<adults, 0, 0, 0>>,
     !.seat_type = seat_type,
     !.sort_by = sort_by,
     !.flight_segments = IF segments = 1 THEN @ ELSE @ \o @]

PreconditionQueries(legs) ==
  {PreconditionQuery(leg, trip_type, adults, seat_type, sort_by, segments) :
     leg \in legs, trip_type \in {TRIP_ONE_WAY, TRIP_ROUND_TRIP}, adults \in {1, 2},
     seat_type \in SeatChoices, sort_by \in {"NONE", "CHEAPEST"}, segments \in {1, 2}}

\* The legs back of the leg {1, 3} -> {2}: its mirror, its mirror with
\* the airports listed in another order, the same leg again, and a leg to
\* one of its airports only.
DepartingLegs == {<<<<1, 3>>, <<2>>>>}
ReturningLegs ==
  {<<<<2>>, <<1, 3>>>>, <<<<2>>, <<3, 1>>>>, <<<<1, 3>>, <<2>>>>, <<<<2>>, <<1>>>>}

\* A query of a mirrored pair with the filter fields the merge combines.
FilterQuery(leg, stops, price_limit, airlines, max_duration, layover) ==
  [LegQueryOf(leg[1], leg[2]) EXCEPT
     !.stops = stops, !.price_limit = price_limit, !.airlines = airlines,
     !.max_duration = max_duration, !.layover_restrictions = layover]

FilterQueries(leg) ==
  {FilterQuery(leg, stops, price_limit, airlines, max_duration, layover) :
     stops \in {ANY, NON_STOP, ONE_STOP_OR_FEWER},
     price_limit \in {None, 100, 250},
     airlines \in {<<>>, <<<<1>>>>, <<<<2, 1>>>>},
     max_duration \in {None, 300},
     layover \in {<<>>, <<LayoverRestrictions(<<>>, None)>>,
                  <<LayoverRestrictions(<<<<1>>>>, 60)>>,
                  <<LayoverRestrictions(<<<<2>>>>, 120)>>}}

InitMerge ==
  /\ comp = "merge"
  /\ GenIdle /\ CityIdle /\ QueryIdle /\ SearchIdle /\ SfiIdle
  /\ \/ \E departing_query \in PreconditionQueries(DepartingLegs) :
          \E returning_query \in PreconditionQueries(ReturningLegs) :
            call_args = <<departing_query, returning_query>>
     \/ \E departing_query \in FilterQueries(<<<<1>>, <<2>>>>) :
          \E returning_query \in FilterQueries(<<<<2>>, <<1>>>>) :
            call_args = <<departing_query, returning_query>>
  /\ call_status = "idle"
  /\ call_result = <<>>

\* merge_flight_queries(departing_query, returning_query) and, for a pair
\* that merges, the merge with the roles exchanged.
Merge ==
  /\ comp = "merge"
  /\ call_status = "idle"
  /\ IF CanMerge(call_args[1], call_args[2])
     THEN /\ call_status' = "ok"
          /\ call_result' = <<MergeFlightQueries(call_args[1], call_args[2]),
                              MergeFlightQueries(call_args[2], call_args[1])>>
     ELSE /\ call_status' = "AssertionError"
          /\ UNCHANGED call_result
  /\ UNCHANGED <<comp, sfiVars, genVars, cityVars, queryVars, searchVars, call_args>>

NextMerge == Merge

SpecMerge == InitMerge /\ [][NextMerge]_vars

\* ------------------------------------------------------------------------
\* Properties of merge_flight_queries
\* ------------------------------------------------------------------------
Merged == comp = "merge" /\ call_status = "ok"
MergeCalled == comp = "merge" /\ call_status # "idle"
AirportSet(airports) == {airports[i] : i \in 1..Len(airports)}

\* C18: the merge produces a query only if both inputs are one-way, have
\* equal passenger info, cabin class and sort mode and one segment each, and
\* the first query's departure and arrival airport sets are the second's
\* arrival and departure airport sets; otherwise it fails.
C18_MergeFailsUnlessMirrored ==
  MergeCalled =>
    LET departing == call_args[1]
        returning == call_args[2]
    IN (call_status = "ok")
         <=> /\ departing.trip_type = TRIP_ONE_WAY
             /\ returning.trip_type = TRIP_ONE_WAY
             /\ departing.passenger_info = returning.passenger_info
             /\ departing.seat_type = returning.seat_type
             /\ departing.sort_by = returning.sort_by
             /\ Len(departing.flight_segments) = 1
             /\ Len(returning.flight_segments) = 1
             /\ AirportSet(departing.flight_segments[1].departure_airport)
                  = AirportSet(returning.flight_segments[1].arrival_airport)
             /\ AirportSet(departing.flight_segments[1].arrival_airport)
                  = AirportSet(returning.flight_segments[1].departure_airport)

\* The same one-way query of one segment twice, hence two legs that are not
\* mirrored: the merge fails.
C18_Witness ==
  /\ MergeCalled
  /\ call_args[1] = call_args[2]
  /\ call_args[1].trip_type = TRIP_ONE_WAY
  /\ Len(call_args[1].flight_segments) = 1
  /\ call_status = "AssertionError"

Both(a, b) == a # None /\ b # None
ListSet(optional_list) == AirportSet(optional_list[1])

\* The fields of the merged query the claim states, from the two inputs.
MergedAsClaimed(merged, a, b) ==
  /\ merged.price_limit =
       IF Both(a.price_limit, b.price_limit) THEN a.price_limit + b.price_limit ELSE None
  /\ IF a.airlines # <<>> /\ b.airlines # <<>>
     THEN /\ merged.airlines # <<>>
          /\ ListSet(merged.airlines) = ListSet(a.airlines) \cup ListSet(b.airlines)
     ELSE merged.airlines = <<>>
  /\ merged.max_duration =
       IF Both(a.max_duration, b.max_duration)
       THEN (IF a.max_duration >= b.max_duration THEN a.max_duration ELSE b.max_duration)
       ELSE None
  /\ IF a.layover_restrictions # <<>> /\ b.layover_restrictions # <<>>
     THEN LET la == a.layover_restrictions[1]
              lb == b.layover_restrictions[1]
              lm == merged.layover_restrictions[1]
          IN /\ merged.layover_restrictions # <<>>
             /\ (la.airports # <<>> /\ lb.airports # <<>>) =>
                  /\ lm.airports # <<>>
                  /\ ListSet(lm.airports) = ListSet(la.airports) \cup ListSet(lb.airports)
             /\ Both(la.max_duration, lb.max_duration) =>
                  lm.max_duration = (IF la.max_duration >= lb.max_duration
                                     THEN la.max_duration ELSE lb.max_duration)
     ELSE merged.layover_restrictions = <<>>

SameSet(optional_a, optional_b) ==
  IF optional_a = <<>> \/ optional_b = <<>> THEN optional_a = optional_b
  ELSE ListSet(optional_a) = ListSet(optional_b)

\* C19: the merged query has the sum of the price ceilings, the union of the
\* airlines, the maximum of the max durations and the layover restriction
\* (union of airports, maximum of max durations), each if both inputs set it
\* and absent otherwise; exchanging the two queries gives the same fields.
C19_MergedFilterFields ==
  Merged =>
    /\ MergedAsClaimed(call_result[1], call_args[1], call_args[2])
    /\ MergedAsClaimed(call_result[2], call_args[2], call_args[1])
    /\ call_result[1].price_limit = call_result[2].price_limit
    /\ SameSet(call_result[1].airlines, call_result[2].airlines)
    /\ call_result[1].max_duration = call_result[2].max_duration
    /\ (call_result[1].layover_restrictions = <<>>)
         <=> (call_result[2].layover_restrictions = <<>>)
    /\ call_result[1].layover_restrictions # <<>> =>
         /\ SameSet(call_result[1].layover_restrictions[1].airports,
                    call_result[2].layover_restrictions[1].airports)
         /\ call_result[1].layover_restrictions[1].max_duration
              = call_result[2].layover_restrictions[1].max_duration

\* Both queries set every field, with different values.
C19_Witness ==
  /\ Merged
  /\ Both(call_args[1].price_limit, call_args[2].price_limit)
  /\ call_args[1].price_limit # call_args[2].price_limit
  /\ call_args[1].airlines # <<>> /\ call_args[2].airlines # <<>>
  /\ call_args[1].airlines # call_args[2].airlines
  /\ Both(call_args[1].max_duration, call_args[2].max_duration)
  /\ call_args[1].layover_restrictions # <<>> /\ call_args[2].layover_restrictions # <<>>
  /\ call_args[1].layover_restrictions # call_args[2].layover_restrictions
  /\ call_result[1].layover_restrictions[1].airports # <<>>

\* The number of stops a MaxStops member allows: any number for ANY (shown
\* as 99), else its value minus one.
StopsAllowed(stops) == IF stops = ANY THEN 99 ELSE stops - 1

\* C20: the merged query allows the maximum of the numbers of stops the two
\* queries allow, so it is at least as permissive as each of them.
C20_MergedStopsMostPermissive ==
  Merged =>
    LET a == StopsAllowed(call_args[1].stops)
        b == StopsAllowed(call_args[2].stops)
    IN StopsAllowed(call_result[1].stops) = (IF a >= b THEN a ELSE b)

\* ------------------------------------------------------------------------
\* FlightItinerary totals and the ranking (src/flight_itinerary.py)
\* ------------------------------------------------------------------------
RECURSIVE Sum(_)
Sum(seq) == IF seq = <<>> THEN 0 ELSE Head(seq) + Sum(Tail(seq))

total_price(flight_infos) ==
  Sum([i \in 1..Len(flight_infos) |-> flight_infos[i].price])

total_minutes_durations(flight_infos) ==
  Sum([i \in 1..Len(flight_infos) |-> flight_infos[i].duration])

total_layover_minutes_duration(flight_infos) ==
  Sum([i \in 1..Len(flight_infos) |-> Sum(flight_infos[i].layover_minutes_duration)])

total_num_stops(flight_infos) ==
  Sum([i \in 1..Len(flight_infos) |-> flight_infos[i].stops])

\* Mutant: the ranking key ends at the total layover.
SortKey_NoStops(flight_infos) ==
  <<total_price(flight_infos), total_minutes_durations(flight_infos),
    total_layover_minutes_duration(flight_infos)>>

\* The key of lines 514-519.
SortKey(flight_infos) ==
  <<total_price(flight_infos), total_minutes_durations(flight_infos),
    total_layover_minutes_duration(flight_infos), total_num_stops(flight_infos)>>

\* Python compares tuples lexicographically.
TupleLess(a, b) ==
  \E i \in 1..Len(a) : a[i] < b[i] /\ \A j \in 1..(i - 1) : a[j] = b[j]

\* sorted() is stable: an element goes behind the elements whose key is not
\* greater than its own.
RECURSIVE InsertByKey(_, _)
InsertByKey(x, ranked) ==
  IF ranked = <<>> THEN <<x>>
  ELSE IF TupleLess(SortKey(x), SortKey(Head(ranked))) THEN <<x>> \o ranked
  ELSE <<Head(ranked)>> \o InsertByKey(x, Tail(ranked))

RECURSIVE SortedItineraries(_)
SortedItineraries(flight_itineraries) ==
  IF flight_itineraries = <<>> THEN <<>>
  ELSE LET n == Len(flight_itineraries)
       IN InsertByKey(flight_itineraries[n],
                      SortedItineraries(SubSeq(flight_itineraries, 1, n - 1)))

\* ------------------------------------------------------------------------
\* search_flight_itineraries (src/flight_itinerary.py)
\* ------------------------------------------------------------------------
\* city_hashes_to_flight_infos is a defaultdict(list): the set of its
\* <<city_hashes, candidates>> items, a missing key reading as the empty list.
\* The value of an expression, computed once and handed to what follows.
Bind(value, F(_)) == CHOOSE r \in {F(v) : v \in {value}} : TRUE

Candidates(items, city_hashes) ==
  IF Has(items, city_hashes) THEN Get(items, city_hashes) ELSE <<>>

Extend(items, city_hashes, flight_infos) ==
  Put(items, city_hashes, Candidates(items, city_hashes) \o flight_infos)

\* Lines 475-479: one member (departing_city_hashes, returning_city_hashes)
\* of the correlation set of a query.
RouteEntry(acc, entry, flight_infos) ==
  LET extended == Extend(acc.items, entry[1], flight_infos[1])
  IN IF entry[2] = <<>>
     THEN IF flight_infos[2] # <<>>
          THEN [status |-> "AssertionError", items |-> extended]
          ELSE [acc EXCEPT !.items = extended]
     ELSE [acc EXCEPT !.items = Extend(extended, entry[2][1], flight_infos[2])]

RECURSIVE RouteEntries(_, _, _)
RouteEntries(acc, entries, flight_infos) ==
  IF acc.status # "ok" \/ entries = <<>> THEN acc
  ELSE Bind(RouteEntry(acc, Head(entries), flight_infos),
            LAMBDA next : RouteEntries(next, Tail(entries), flight_infos))

\* Lines 472-479.  The members of one correlation set are visited in the
\* order of the set; two members touch the same list only to extend it by
\* the same offers, so the order of the set does not show in the result.
RECURSIVE RouteResults(_, _, _)
RouteResults(acc, results, correlation) ==
  IF acc.status # "ok" \/ results = <<>> THEN acc
  ELSE LET query_hash == Head(results)[1]
           entries == SetToSeq({e[2] : e \in {c \in correlation : c[1] = query_hash}})
       IN Bind(RouteEntries(acc, entries, Head(results)[2]),
               LAMBDA next : RouteResults(next, Tail(results), correlation))

\* Lines 495-498.
ListFlightInfos(items, city_itinerary) ==
  [i \in 1..(Len(city_itinerary) - 1) |->
     Candidates(items, <<CityHash(city_itinerary[i]), CityHash(city_itinerary[i + 1])>>)]

\* Lines 484-506: the itineraries of every city itinerary, in order.
RECURSIVE AssembleFrom(_, _, _, _, _)
AssembleFrom(acc, items, itineraries, stay_hours_list, k) ==
  IF acc.status # "ok" \/ k > Len(itineraries) THEN acc
  ELSE Bind(ListFlightInfos(items, itineraries[k]),
            LAMBDA flight_infos_list :
              Bind(GenerateFlightItineraries(flight_infos_list, stay_hours_list[1][k],
                                             stay_hours_list[2][k]),
                   LAMBDA generated :
                     Bind([status |-> generated.status,
                           its |-> IF generated.status = "ok"
                                   THEN acc.its \o generated.its ELSE acc.its],
                          LAMBDA next : AssembleFrom(next, items, itineraries,
                                                     stay_hours_list, k + 1))))

\* Lines 467-521, given what search_flights_parallel returned.
RankedItineraries(results, registry, correlation, itineraries, stay_hours_list) ==
  IF Keys(results) # {HashFlightQuery(registry[i]) : i \in 1..Len(registry)}
  THEN [status |-> "AssertionError", items |-> {}, its |-> <<>>]
  ELSE Bind(RouteResults([status |-> "ok", items |-> {}], results, correlation),
            LAMBDA routed :
              IF routed.status # "ok"
              THEN [status |-> routed.status, items |-> routed.items, its |-> <<>>]
              ELSE Bind(AssembleFrom([status |-> "ok", its |-> <<>>], routed.items,
                                     itineraries, stay_hours_list, 1),
                        LAMBDA assembled :
                          [status |-> assembled.status, items |-> routed.items,
                           its |-> IF assembled.status = "ok"
                                   THEN SortedItineraries(assembled.its) ELSE <<>>]))

\* ------------------------------------------------------------------------
\* State machine of search_flight_itineraries
\* ------------------------------------------------------------------------
\* One template that alternates between two cities.  The first city leaves
\* on day 1 or 2, the second city leaves on day 1 and may state its arrival
\* on day 1, the last city may state a range of arrival dates and an arrival
\* window, and the second city states its cabin class.
FirstDepartureChoices == {Range(1, 1), Range(2, 2)}
SecondArrivalChoices == {NoRange, Range(1, 1)}
LastArrivalChoices == {NoRange, Range(1, MaxDay)}
LastWindowChoices == {NoRange, Range(360, 480)}

ItineraryTemplate(n, seat, first_departure, second_arrival, last_arrival, last_window) ==
  [i \in 1..n |->
     CityRange(TemplateAirports(i), None, None,
               IF i = n THEN last_arrival ELSE IF i = 2 THEN second_arrival ELSE NoRange,
               IF i = n THEN last_window ELSE NoRange,
               IF i = 1 THEN first_departure ELSE IF i < n THEN Range(1, 1) ELSE NoRange,
               NoRange,
               DepartureFlightFilter(IF i = 2 THEN seat ELSE ECONOMY))]

\* What the provider may answer to a query.  A round trip whose returning
\* flight costs what the two one-way flights cost together, and takes as long.
RoundTripTie ==
  Results(<<PairItem(FlightResult(200, 0, 1), FlightResult(150, 4, 5))>>)

OutboundOffers == Results(<<OneWayItem(FlightResult(100, 0, 1))>>)
ReturnOffers == Results(<<OneWayItem(FlightResult(100, 4, 5))>>)

OffersFor(query) ==
  IF query.trip_type = TRIP_ROUND_TRIP THEN {ReturnsNone, RoundTripOffers, RoundTripTie}
  ELSE IF query.flight_segments[1].departure_airport = LHR
       THEN {ReturnsNone, Raises, OutboundOffers}
       ELSE {ReturnsNone, ReturnOffers}

ProvidersFor(registry) ==
  {pr \in [1..Len(registry) -> {ReturnsNone, Raises, RoundTripOffers, RoundTripTie,
                                OutboundOffers, ReturnOffers}] :
     \A i \in 1..Len(registry) : pr[i] \in OffersFor(registry[i])}

InitItineraries ==
  /\ comp = "itineraries"
  /\ GenIdle /\ CityIdle /\ CallIdle
  /\ \E n \in 2..MaxCities :
       \E seat \in SeatChoices :
         \E first_departure \in FirstDepartureChoices :
           \E second_arrival \in SecondArrivalChoices :
             \E last_arrival \in LastArrivalChoices :
               \E last_window \in LastWindowChoices :
                 city_ranges_list =
                   <<ItineraryTemplate(n, seat, first_departure, second_arrival,
                                       last_arrival, last_window)>>
  /\ provider \in ProvidersFor(GetQueries(city_ranges_list).query_hash_to_query)
  /\ q_status = "idle"
  /\ q_city_itineraries = <<>>
  /\ q_stay_hours_list = <<>>
  /\ query_hash_to_query = <<>>
  /\ query_hash_to_set_city_hashes = {}
  /\ flight_queries = <<>>
  /\ futs = <<>>
  /\ disp_pc = "not called"
  /\ disp_error = "none"
  /\ query_hash_to_flight_infos = <<>>
  /\ sfi_status = "idle"
  /\ city_hashes_to_flight_infos = {}
  /\ flight_itinerary_list = <<>>

\* Lines 457-466: get_queries, then search_flights_parallel is called with
\* the values of the registry.  An exception of get_queries leaves the function.
CallGetQueries ==
  /\ comp = "itineraries"
  /\ sfi_status = "idle"
  /\ LET out == GetQueries(city_ranges_list)
     IN /\ q_status' = out.status
        /\ IF out.status = "ok"
           THEN /\ q_city_itineraries' = out.city_itineraries
                /\ q_stay_hours_list' = <<out.min_stay_hours_list, out.max_stay_hours_list>>
                /\ query_hash_to_query' = out.query_hash_to_query
                /\ query_hash_to_set_city_hashes' = out.query_hash_to_set_city_hashes
                /\ flight_queries' = [i \in 1..Len(out.query_hash_to_query) |->
                                        HashFlightQuery(out.query_hash_to_query[i])]
                /\ disp_pc' = "idle"
                /\ sfi_status' = "running"
           ELSE /\ sfi_status' = out.status
                /\ UNCHANGED <<q_city_itineraries, q_stay_hours_list, query_hash_to_query,
                               query_hash_to_set_city_hashes, flight_queries, disp_pc>>
  /\ UNCHANGED <<comp, genVars, cityVars, callVars, city_ranges_list, provider, futs,
                 disp_error, query_hash_to_flight_infos, city_hashes_to_flight_infos,
                 flight_itinerary_list>>

\* Line 466: an exception of search_flights_parallel leaves the function.
Propagate ==
  /\ comp = "itineraries"
  /\ sfi_status = "running"
  /\ disp_pc = "raised"
  /\ sfi_status' = disp_error
  /\ UNCHANGED <<comp, genVars, cityVars, callVars, queryVars, searchVars,
                 city_hashes_to_flight_infos, flight_itinerary_list>>

\* Mutant: the itineraries are assembled from the results collected so far.
Assemble_BeforeReturn ==
  /\ comp = "itineraries"
  /\ sfi_status = "running"
  /\ disp_pc \in {"collecting", "returned"}
  /\ \E ranked \in {RankedItineraries(query_hash_to_flight_infos, query_hash_to_query,
                                       query_hash_to_set_city_hashes,
                                       q_city_itineraries, q_stay_hours_list)} :
        /\ sfi_status' = ranked.status
        /\ city_hashes_to_flight_infos' = ranked.items
        /\ flight_itinerary_list' = ranked.its
  /\ UNCHANGED <<comp, genVars, cityVars, callVars, queryVars, searchVars>>

\* Lines 467-521, once search_flights_parallel has returned its map.
Assemble ==
  /\ comp = "itineraries"
  /\ sfi_status = "running"
  /\ disp_pc = "returned"
  /\ \E ranked \in {RankedItineraries(query_hash_to_flight_infos, query_hash_to_query,
                                       query_hash_to_set_city_hashes,
                                       q_city_itineraries, q_stay_hours_list)} :
        /\ sfi_status' = ranked.status
        /\ city_hashes_to_flight_infos' = ranked.items
        /\ flight_itinerary_list' = ranked.its
  /\ UNCHANGED <<comp, genVars, cityVars, callVars, queryVars, searchVars>>

NextItineraries ==
  \/ CallGetQueries
  \/ Submit
  \/ \E q \in 1..Len(futs) : WorkerFinish(q)
  \/ \E q \in 1..Len(futs) : Collect(q)
  \/ Return
  \/ Propagate
  \/ Assemble

SpecItineraries == InitItineraries /\ [][NextItineraries]_vars

\* ------------------------------------------------------------------------
\* Properties of search_flight_itineraries
\* ------------------------------------------------------------------------
RegistryKeys == {HashFlightQuery(query_hash_to_query[i]) : i \in 1..Len(query_hash_to_query)}

\* Lines 467-521 have run, to their end or to an exception of theirs.
Assembled ==
  q_status = "ok" /\ disp_pc \notin {"not called", "raised"}
  /\ sfi_status \notin {"idle", "running"}

\* C21: search_flights_parallel returns only after every submitted call has
\* finished and been collected; the map it returns has exactly one entry per
\* dispatched query hash, its key set being the key set of the registry; and
\* the itineraries are assembled only after it has returned.
C21_AssemblyAfterAllCallsFinished ==
  /\ disp_pc = "returned" =>
       /\ Len(futs) = Len(flight_queries)
       /\ \A q \in 1..Len(futs) : futs[q] = "collected"
       /\ Keys(query_hash_to_flight_infos) = RegistryKeys
       /\ Len(query_hash_to_flight_infos) = Cardinality(RegistryKeys)
  /\ Assembled => disp_pc = "returned"

\* Three queries were dispatched, their results arrived in another order
\* than they were submitted in, and the itineraries were assembled.
C21_Witness ==
  /\ sfi_status = "ok"
  /\ disp_pc = "returned"
  /\ Len(futs) = 3
  /\ query_hash_to_flight_infos[1][1] # flight_queries[1]
  /\ flight_itinerary_list # <<>>

\* The index of the dispatched query whose result is the k-th collected one.
QueryOfResult(k) ==
  CHOOSE q \in 1..Len(flight_queries) : flight_queries[q] = query_hash_to_flight_infos[k][1]

\* The result holds the two flights of the paired offer as the claim prices
\* them: the departing one at 0, the returning one at the dearer of the two
\* offers, the ids rendering these prices, and the returning flight naming
\* the departing one as a parent.
PairedAsClaimed(item, found) ==
  \E d \in 1..Len(found[1]) : \E r \in 1..Len(found[2]) :
    /\ found[1][d].flight_type = ROUND_TRIP_DEPARTING
    /\ found[1][d].dep = item.departing.dep /\ found[1][d].arr = item.departing.arr
    /\ found[1][d].price = 0
    /\ FlightId(found[1][d])[1] = 0
    /\ found[2][r].flight_type = ROUND_TRIP_RETURNING
    /\ found[2][r].dep = item.returning.dep /\ found[2][r].arr = item.returning.arr
    /\ found[2][r].price = Max(item.departing.price, item.returning.price)
    /\ FlightId(found[2][r])[1] = Max(item.departing.price, item.returning.price)
    /\ FlightId(found[1][d]) \in Elements(found[2][r].parent_ids)

\* C22: for every paired offer of a round-trip query the departing flight is
\* priced 0 and the returning flight at the maximum of the two offered
\* prices, the ids are computed from these prices, and the parent ids of the
\* returning flight include the id of that departing flight.
C22_RoundTripPricing ==
  \A k \in 1..Len(query_hash_to_flight_infos) :
    LET response == provider[QueryOfResult(k)]
    IN response.kind = "results" =>
         \A i \in 1..Len(response.items) :
           response.items[i].pair =>
             PairedAsClaimed(response.items[i], query_hash_to_flight_infos[k][2])

\* A collected round trip whose departing offer is dearer than its returning
\* offer.
C22_Witness ==
  \E k \in 1..Len(query_hash_to_flight_infos) :
    LET response == provider[QueryOfResult(k)]
    IN /\ response.kind = "results"
       /\ \E i \in 1..Len(response.items) :
            /\ response.items[i].pair
            /\ response.items[i].departing.price > response.items[i].returning.price
            /\ response.items[i].returning.price > 0

\* ------------------------------------------------------------------------
\* State machine of the ranking of search_flight_itineraries
\* ------------------------------------------------------------------------
\* An itinerary of two flights: a non-stop flight of 100 and one hour, and a
\* flight that varies in price, duration, stops and minutes of layover, which
\* its stops share.
RankedFlight(price, hours, stops, layover) ==
  [FlightInfo(ONE_WAY, price, 2, 2 + hours, <<>>) EXCEPT
     !.stops = stops,
     !.layover_minutes_duration = [i \in 1..stops |-> layover \div stops]]

RankChoices ==
  {<<FlightInfo(ONE_WAY, 100, 0, 1, <<>>), RankedFlight(price, hours, stops, layover)>> :
     price \in {100, 200}, hours \in {2, 3}, stops \in {1, 2}, layover \in {30, 60}}

RECURSIVE ListsUpTo(_, _)
ListsUpTo(S, n) ==
  IF n = 0 THEN {<<>>}
  ELSE LET shorter == ListsUpTo(S, n - 1)
       IN shorter \cup {Append(l, x) : l \in {m \in shorter : Len(m) = n - 1}, x \in S}

InitRank ==
  /\ comp = "rank"
  /\ GenIdle /\ CityIdle /\ QueryIdle /\ SearchIdle /\ SfiIdle
  /\ call_args \in ListsUpTo(RankChoices, MaxRanked)
  /\ call_status = "idle"
  /\ call_result = <<>>

\* Lines 511-520.
Rank ==
  /\ comp = "rank"
  /\ call_status = "idle"
  /\ call_status' = "ok"
  /\ call_result' = SortedItineraries(call_args)
  /\ UNCHANGED <<comp, sfiVars, genVars, cityVars, queryVars, searchVars, call_args>>

NextRank == Rank

SpecRank == InitRank /\ [][NextRank]_vars

\* ------------------------------------------------------------------------
\* Properties of the ranking
\* ------------------------------------------------------------------------
ClaimedKey(flight_infos) ==
  <<total_price(flight_infos), total_minutes_durations(flight_infos),
    total_layover_minutes_duration(flight_infos), total_num_stops(flight_infos)>>

\* a is not after b in the lexicographic order of the four totals.
KeyNotAfter(a, b) ==
  \/ a = b
  \/ \E i \in 1..4 : a[i] < b[i] /\ \A j \in 1..(i - 1) : a[j] = b[j]

Count(x, seq) == Cardinality({i \in 1..Len(seq) : seq[i] = x})

\* C23: the returned list is ascending in (total price, total duration,
\* total layover, total stops): neighbours are in order, the list is a
\* permutation of the assembled itineraries, and sorting it again changes
\* nothing.
C23_RankedAscending ==
  call_status = "ok" =>
    /\ \A i \in 1..(Len(call_result) - 1) :
         KeyNotAfter(ClaimedKey(call_result[i]), ClaimedKey(call_result[i + 1]))
    /\ Len(call_result) = Len(call_args)
    /\ \A x \in Elements(call_args) : Count(x, call_result) = Count(x, call_args)
    /\ SortedItineraries(call_result) = call_result

\* Three itineraries given in descending order that tie in price, duration
\* and layover, or in price and duration, and differ in the next total.
C23_Witness ==
  /\ call_status = "ok"
  /\ Len(call_args) = 3
  /\ call_result = <<call_args[3], call_args[2], call_args[1]>>
  /\ ClaimedKey(call_args[1])[1] = ClaimedKey(call_args[3])[1]
  /\ ClaimedKey(call_args[1])[2] = ClaimedKey(call_args[3])[2]
  /\ ClaimedKey(call_args[2])[3] = ClaimedKey(call_args[3])[3]
  /\ ClaimedKey(call_args[2])[4] > ClaimedKey(call_args[3])[4]
  /\ ClaimedKey(call_args[1])[3] > ClaimedKey(call_args[2])[3]

\* ------------------------------------------------------------------------
\* More properties of search_flight_itineraries
\* ------------------------------------------------------------------------
\* get_queries returned, and no template expanded to a city itinerary.
NothingToSearch ==
  q_status = "ok" /\ q_city_itineraries = <<>> /\ query_hash_to_query = <<>>

\* C24: when every template expands to no city itinerary, so that there is
\* no query, search_flight_itineraries raises nothing and returns an empty
\* collection.
C24_NoQueriesReturnsEmpty ==
  NothingToSearch =>
    /\ disp_error = "none"
    /\ sfi_status \in {"running", "ok"}
    /\ sfi_status = "ok" => flight_itinerary_list = <<>>

\* ------------------------------------------------------------------------
\* State machine of the construction of ranges (src/datetime_range.py)
\* ------------------------------------------------------------------------
\* Mutant: __post_init__ compares nothing.
RangePostInit_NoAssert(earliest, latest) == "ok"

\* Range.__post_init__, which DateTimeRange, DateRange and TimeRange inherit.
RangePostInit(earliest, latest) ==
  IF earliest # None /\ latest # None
  THEN IF earliest <= latest THEN "ok" ELSE "AssertionError"
  ELSE "ok"

\* A bound is None or an instant: a date, a time or a date-time.
BoundChoices == {None} \cup 0..MaxInstant

\* call_result is the list of the ranges that exist, call_args the bounds of
\* the last construction and call_status its outcome.  At most MaxRanges
\* ranges are constructed.
InitRange ==
  /\ comp = "range"
  /\ GenIdle /\ CityIdle /\ QueryIdle /\ SearchIdle /\ SfiIdle
  /\ call_args = <<>>
  /\ call_status = "idle"
  /\ call_result = <<>>

Construct(earliest, latest) ==
  /\ comp = "range"
  /\ Len(call_result) < MaxRanges \/ RangePostInit(earliest, latest) # "ok"
  /\ call_args' = <<earliest, latest>>
  /\ call_status' = RangePostInit(earliest, latest)
  /\ call_result' = IF RangePostInit(earliest, latest) = "ok"
                    THEN Append(call_result, Range(earliest, latest))
                    ELSE call_result
  /\ UNCHANGED <<comp, sfiVars, genVars, cityVars, queryVars, searchVars>>

NextRange == \E earliest \in BoundChoices : \E latest \in BoundChoices :
               Construct(earliest, latest)

SpecRange == InitRange /\ [][NextRange]_vars

\* ------------------------------------------------------------------------
\* Properties of the construction of ranges
\* ------------------------------------------------------------------------
BothBounds(earliest, latest) == earliest # None /\ latest # None

\* C25: the construction of a range fails exactly when both bounds are
\* present and earliest is after latest, any other range is constructed, and
\* every range that exists with both bounds has earliest <= latest.
C25_RangeOrdered ==
  /\ call_status # "idle" =>
       /\ call_status = "AssertionError" <=>
            (BothBounds(call_args[1], call_args[2]) /\ call_args[1] > call_args[2])
       /\ call_status = "ok" <=>
            (~BothBounds(call_args[1], call_args[2]) \/ call_args[1] <= call_args[2])
       /\ call_status = "ok" =>
            call_result[Len(call_result)] = Range(call_args[1], call_args[2])
  /\ \A i \in 1..Len(call_result) :
       BothBounds(call_result[i].earliest, call_result[i].latest) =>
         call_result[i].earliest <= call_result[i].latest

\* A range with both bounds and a range that lacks its earliest bound exist,
\* and the construction of a range whose earliest is after its latest failed.
C25_Witness ==
  /\ call_status = "AssertionError"
  /\ Len(call_result) = 2
  /\ BothBounds(call_result[1].earliest, call_result[1].latest)
  /\ call_result[1].earliest < call_result[1].latest
  /\ call_result[2].earliest = None /\ call_result[2].latest # None

\* The map search_flights_parallel returns when the calls complete in the
\* order they were submitted in.
InSubmissionOrder ==
  [q \in 1..Len(flight_queries) |-> <<flight_queries[q], SearchFlights(provider[q])>>]

\* C26: for given templates and provider responses the ranked sequence is
\* the same for every completion order of the concurrent calls, the relative
\* order of ties included: it is the sequence obtained when the calls
\* complete in submission order.
C26_RankingIgnoresCompletionOrder ==
  sfi_status = "ok" =>
    flight_itinerary_list =
      RankedItineraries(InSubmissionOrder, query_hash_to_query,
                        query_hash_to_set_city_hashes,
                        q_city_itineraries, q_stay_hours_list).its

NoIdTwice(flight_infos) ==
  \A i, j \in 1..Len(flight_infos) :
    FlightId(flight_infos[i]) = FlightId(flight_infos[j]) => i = j

\* C27: after the results are routed, the candidate list of every directed
\* city pair holds each FlightInfo id at most once, also when a round-trip
\* query has several combined entries with the same departing city pair,
\* and no city itinerary produces a flight itinerary twice.
C27_NoCandidateTwice ==
  Assembled =>
    /\ \A item \in city_hashes_to_flight_infos : NoIdTwice(item[2])
    /\ \A i \in 1..Len(flight_itinerary_list) :
         Count(flight_itinerary_list[i], flight_itinerary_list) <= Len(q_city_itineraries)

\* ------------------------------------------------------------------------
\* More properties of generate_flight_itineraries
\* ------------------------------------------------------------------------
AllOneWay ==
  \A k \in Positions(list_flight_infos) :
    \A j \in Positions(list_flight_infos[k]) :
      list_flight_infos[k][j].flight_type = ONE_WAY

\* One position per leg, in the order the search visits them.
PositionChoices ==
  Product([k \in Positions(list_flight_infos) |->
             [j \in Positions(list_flight_infos[k]) |-> j]])

\* Every stopover gap of the chosen candidates is strictly positive and
\* within the bounds set for that stopover.
GapsAsClaimed(choice) ==
  \A k \in 2..Len(choice) :
    LET gap == list_flight_infos[k][choice[k]].dep
               - list_flight_infos[k - 1][choice[k - 1]].arr
    IN /\ gap > 0
       /\ (min_stay_hours[k] # None => gap >= min_stay_hours[k])
       /\ (max_stay_hours[k] # None => gap <= max_stay_hours[k])

\* C28: when every candidate is ONE_WAY and there are two or more legs, the
\* call returns exactly the sequences of one candidate per leg whose stopover
\* gaps are strictly positive and within the stay bounds, each once per
\* combination of candidate positions (here in the order of the positions).
C28_OneWayCombinations ==
  (Called /\ AllOneWay /\ Len(list_flight_infos) >= 2) =>
    /\ Returned
    /\ LET claimed == SelectSeq(PositionChoices, GapsAsClaimed)
       IN gen_itineraries =
            [n \in 1..Len(claimed) |->
               [k \in Positions(list_flight_infos) |->
                  list_flight_infos[k][claimed[n][k]]]]

\* Two legs of one-way candidates, two candidates on the first leg, a stay
\* bound set: a combination is returned and another is left out.
C28_Witness ==
  /\ Returned /\ AllOneWay
  /\ Len(list_flight_infos) = 2
  /\ Len(list_flight_infos[1]) = 2
  /\ min_stay_hours[2] # None \/ max_stay_hours[2] # None
  /\ gen_itineraries # <<>>
  /\ \E choice \in Elements(PositionChoices) : ~GapsAsClaimed(choice)
  /\ \E n \in Positions(gen_itineraries) : gen_itineraries[n][1] = list_flight_infos[1][2]

\* The input with leg k cut down to the candidates that have the given id.
OnlyCandidate(k, id) ==
  [l \in Positions(list_flight_infos) |->
     IF l = k
     THEN SelectSeq(list_flight_infos[l], LAMBDA f : FlightId(f) = id)
     ELSE list_flight_infos[l]]

\* The returned itineraries that fly the candidate with the given id on leg k.
Through(k, id) == SelectSeq(gen_itineraries, LAMBDA it : FlightId(it[k]) = id)

\* C29: the open round-trip id set is copy-on-branch.  Every candidate of a
\* leg sees the set its caller handed over, with the id of the previous
\* flight when that opens a round trip, whatever the candidates before it
\* closed; a candidate only removes from its own copy; and the completions
\* through a candidate are those found when the other candidates of its leg
\* are not tried at all.
C29_OpenSetCopiedPerBranch ==
  /\ \A v \in gen_visits :
       /\ v.idx = 2 => v.open = OpenAfter(v.prev, {})
       /\ v.idx > 2 =>
            \E u \in gen_visits :
              /\ u.idx = v.idx - 1 /\ u.eligible /\ u.next = v.prev
              /\ v.open = OpenAfter(v.prev, u.child)
       /\ v.child \subseteq v.open
  /\ (Returned /\ Len(list_flight_infos) >= 2) =>
       \A k \in 2..Len(list_flight_infos) :
         \A j \in Positions(list_flight_infos[k]) :
           LET id == FlightId(list_flight_infos[k][j])
           IN Through(k, id) =
                StartAll(OnlyCandidate(k, id), min_stay_hours, max_stay_hours, 1).its

\* Two returning candidates of the second leg close the round trip of the
\* same first flight, each on its own copy of the open set, and both
\* itineraries are returned.
C29_Witness ==
  /\ Returned
  /\ Len(gen_itineraries) >= 2
  /\ \E v, w \in gen_visits :
       /\ v.idx = 2 /\ w.idx = 2
       /\ v.prev = w.prev /\ v.cand # w.cand
       /\ v.eligible /\ w.eligible
       /\ v.child # v.open /\ w.child # w.open

\* The template is A -> B -> A with the same cabin class on both legs, so
\* that the mirrored legs can be merged, it expands to a city itinerary, and
\* get_queries has been called.
MirroredTemplate ==
  /\ Len(city_ranges_list[1]) = 3
  /\ city_ranges_list[1][1].departure_flight_filter.seat_type
       = city_ranges_list[1][2].departure_flight_filter.seat_type
  /\ GetCityItineraries(city_ranges_list[1]) # <<>>
  /\ sfi_status # "idle"

TypesOf(flight_infos) == {flight_infos[i].flight_type : i \in 1..Len(flight_infos)}

QueriesOfType(trip_type) ==
  {i \in 1..Len(query_hash_to_query) : query_hash_to_query[i].trip_type = trip_type}

\* The offers routed to leg k of the city itinerary.
LegCandidates(city_itinerary, k) ==
  Candidates(city_hashes_to_flight_infos,
             <<CityHash(city_itinerary[k]), CityHash(city_itinerary[k + 1])>>)

\* What the queries of the given trip type returned, departing (side 1) or
\* returning (side 2).
OffersOfType(trip_type, side) ==
  UNION {Elements(query_hash_to_flight_infos[r][2][side]) :
           r \in {x \in 1..Len(query_hash_to_flight_infos) :
                    query_hash_to_query[QueryOfResult(x)].trip_type = trip_type}}

\* C30: for a template A -> B -> A with mergeable mirrored legs the registry
\* holds exactly three queries, the two one-way queries of the legs and one
\* round-trip query; the outbound leg's candidates are the one-way offers
\* and the departing round-trip offers, the return leg's candidates the
\* one-way offers and the returning round-trip offers; and no itinerary
\* flies a ROUND_TRIP_DEPARTING outbound with a ONE_WAY return.
C30_MirroredTemplateQueries ==
  MirroredTemplate =>
    /\ Len(query_hash_to_query) = 3
    /\ Cardinality(QueriesOfType(TRIP_ONE_WAY)) = 2
    /\ Cardinality(QueriesOfType(TRIP_ROUND_TRIP)) = 1
    /\ Assembled =>
         \A c \in 1..Len(q_city_itineraries) :
           LET outbound == LegCandidates(q_city_itineraries[c], 1)
               return == LegCandidates(q_city_itineraries[c], 2)
           IN /\ TypesOf(outbound) \subseteq {ONE_WAY, ROUND_TRIP_DEPARTING}
              /\ TypesOf(return) \subseteq {ONE_WAY, ROUND_TRIP_RETURNING}
              /\ Elements(outbound) \cup Elements(return)
                   = OffersOfType(TRIP_ONE_WAY, 1) \cup OffersOfType(TRIP_ROUND_TRIP, 1)
                     \cup OffersOfType(TRIP_ROUND_TRIP, 2)
              /\ OffersOfType(TRIP_ROUND_TRIP, 1) \subseteq Elements(outbound)
              /\ OffersOfType(TRIP_ROUND_TRIP, 2) \subseteq Elements(return)
    /\ \A n \in 1..Len(flight_itinerary_list) :
         ~(/\ flight_itinerary_list[n][1].flight_type = ROUND_TRIP_DEPARTING
           /\ flight_itinerary_list[n][2].flight_type = ONE_WAY)

====
